---- MODULE Spec2Model ----
(***************************************************************************)
(* Model of the browser tab pool of distill (src/src/browser.rs):          *)
(* BrowserManager (semaphore, idle tab cache, browser handle), TabGuard    *)
(* and its Drop, acquire_tab, create_tab_with_retry, restart_browser,      *)
(* scrape_page and do_scrape.                                              *)
(*                                                                         *)
(* Every request is one call of scrape_page, run as its own async task.    *)
(* A critical section of the idle_tabs mutex holds no await, so lock,      *)
(* body and unlock are one step of Spec; so are the sections of the       *)
(* browser RwLock (read guard around new_tab, write guard around the       *)
(* swap), and both locks are free in every state of Spec.  SpecLocks      *)
(* takes and gives back the locks in steps of their own.                   *)
(* Time is abstract: a sleep or a timeout may elapse at any moment after   *)
(* it was started.                                                         *)
(*                                                                         *)
(* Around the pool: BrowserManager::stats (SpecStats), the format step of  *)
(* do_scrape, AppError and ScrapeResponse (src/src/error.rs,               *)
(* src/src/models.rs; SpecResponse) and validate_url                       *)
(* (src/src/handlers.rs; SpecValidate).  SpecHandler is scrape_handler     *)
(* (src/src/handlers.rs) in front of the pool: the key comparison, the URL *)
(* validation, the scrape_page call and the analysis, one request at a     *)
(* time.                                                                   *)
(***************************************************************************)
EXTENDS Naturals, Sequences, FiniteSets, TLC

\* ---------------------------------------------------------------- bounds
\* Number of concurrent scrape_page calls.
NReq == 2
\* Largest max_concurrent_tabs given to BrowserManager::new.
MaxCapacity == 2
\* Number of tabs that calls served earlier have left in the idle cache.
NWarm == 2

Req == 1..NReq

\* Error texts a failing Browser::new_tab can carry (e.to_string()).
ConnErrMsgs ==
    {"connection is closed", "connection closed", "not connected",
     "Browser has been closed"}
OtherErrMsgs == {"No such target"}
ErrMsgs == ConnErrMsgs \cup OtherErrMsgs

is_connection_error(error_msg) ==
    \/ error_msg = "connection is closed"
    \/ error_msg = "connection closed"
    \/ error_msg = "not connected"
    \/ error_msg = "Browser has been closed"

NoTab == 0
NoProc == 0
NoGuard == [tab |-> NoTab, id |-> 0]
NoWork == [tab |-> NoTab, step |-> "none"]
NoResult == "none"
NoOwner == [kind |-> "none", req |-> 0]
NoWriter == 0

VARIABLES
    max_concurrent_tabs, \* BrowserManager.max_concurrent_tabs
    permits,    \* Semaphore: number of available permits
    hasPermit,  \* hasPermit[r]: the OwnedSemaphorePermit of r's call is alive
    idle_tabs,  \* Vec<IdleTab>: sequence of [id, tab], with the offering task
    browser,    \* RwLock<Arc<Browser>>: the installed process
    dead,       \* processes whose connection is lost (crashed or dropped)
    closed,     \* tabs on which close(true) was called
    closeCalls, \* closeCalls[t]: number of close(true) calls on tab t
    tabProc,    \* tabProc[t]: the process tab t was created from
    nextTab,    \* next tab handle / Uuid to hand out
    nextProc,   \* next process to launch
    pc,         \* pc[r]: position of request r in scrape_page
    guard,      \* guard[r]: the TabGuard r holds, or NoGuard
    result,     \* what the latest scrape_page call to return has returned
    work,       \* work[r]: the spawn_blocking closure r started, while it runs
    tasks,      \* tasks spawned by TabGuard::drop
    newProc,    \* newProc[r]: process r launched and has not installed yet
    attempts,   \* attempts[r]: new_tab calls made by r's create_tab_with_retry
    restarts,   \* restarts[r]: restart_browser calls made by r
    idle_lock,  \* Mutex of idle_tabs: who holds it, or NoOwner
    readers,    \* RwLock of browser: the calls holding a read guard
    writer,     \* RwLock of browser: the call holding the write guard
    stats_pc,   \* position of the stats() call
    idle_count, \* stats(): the local idle_count
    stats_out,  \* the BrowserStats the stats() call returned
    app_error,  \* the AppError that code, status_code, into_response get
    extract_result, \* the PageExtractResult of the extraction closure
    request_output_format, \* request.output_format
    convert_calls,  \* number of calls of htmd::convert
    returned,   \* the function called last around the pool and its value
    url_str,    \* the argument of validate_url
    api_key,    \* AppState.api_key
    request,    \* the request scrape_handler is serving, or was serving last
    handler_pc, \* position of scrape_handler
    served      \* number of scrape_page calls scrape_handler has got back

\* Option<T>
None == <<>>
Some(x) == <<x>>

StatsVars == <<stats_pc, idle_count, stats_out>>
ResponseVars ==
    <<app_error, extract_result, request_output_format, convert_calls>>
HandlerVars == <<api_key, request, handler_pc, served>>
GlueVars == <<StatsVars, ResponseVars, HandlerVars, returned, url_str>>

vars ==
    <<GlueVars, max_concurrent_tabs, idle_lock, readers,
      writer, permits, hasPermit, idle_tabs, browser, dead, closed,
      closeCalls, tabProc, nextTab, nextProc, pc, guard, result, work,
      tasks, newProc, attempts, restarts>>

\* The tabs there can be: those left by earlier calls and one per request.
Tabs == 1..(NReq + NWarm)

\* main: API_KEY is not set and the default is used; no request has come.
InitHandler ==
    /\ api_key = "changeme"
    /\ request = None
    /\ handler_pc = "idle"
    /\ served = 0

\* Nothing was called around the pool yet.
InitGlue ==
    /\ stats_pc = "start"
    /\ idle_count = 0
    /\ stats_out = None
    /\ app_error = None
    /\ extract_result = None
    /\ request_output_format = "Markdown"
    /\ convert_calls = 0
    /\ returned = None
    /\ url_str = None
    /\ InitHandler

\* BrowserManager::new: one launched process, n permits, empty idle cache.
InitManager ==
    /\ max_concurrent_tabs \in 1..MaxCapacity
    /\ permits = max_concurrent_tabs
    /\ hasPermit = [r \in Req |-> FALSE]
    /\ idle_tabs = <<>>
    /\ browser = 1
    /\ dead = {}
    /\ closed = {}
    /\ closeCalls = [t \in Tabs |-> 0]
    /\ tabProc = [t \in Tabs |-> NoProc]
    /\ nextTab = 1
    /\ nextProc = 2
    /\ pc = [r \in Req |-> "start"]
    /\ guard = [r \in Req |-> NoGuard]
    /\ result = NoResult
    /\ work = [r \in Req |-> NoWork]
    /\ tasks = {}
    /\ newProc = [r \in Req |-> NoProc]
    /\ attempts = [r \in Req |-> 0]
    /\ restarts = [r \in Req |-> 0]
    /\ idle_lock = NoOwner
    /\ readers = {}
    /\ writer = NoWriter

\* The state in which the server starts to serve.
Init == InitManager /\ InitGlue

\* ------------------------------------------------------------- helpers
\* A tab answers get_target_info (and any other call) only while its
\* process is connected and it was not closed.
Live(t) == t /= NoTab /\ tabProc[t] \notin dead /\ t \notin closed

Front(s) == SubSeq(s, 1, Len(s) - 1)
Last(s) == s[Len(s)]

\* Vec::remove(pos)
RemoveAt(s, pos) == SubSeq(s, 1, pos - 1) \o SubSeq(s, pos + 1, Len(s))

\* tabs.iter().position(|t| t.id == tab_id): the first match, 0 for None.
Position(s, id) ==
    IF \E i \in 1..Len(s) : s[i].id = id
    THEN CHOOSE i \in 1..Len(s) :
            /\ s[i].id = id
            /\ \A j \in 1..(i - 1) : s[j].id /= id
    ELSE 0

IdleTabSet == {idle_tabs[i].tab : i \in 1..Len(idle_tabs)}
LeasedTabs == {guard[r].tab : r \in {q \in Req : guard[q] /= NoGuard}}
Leases == {r \in Req : guard[r] /= NoGuard}


\* Mutant of TabGuard_drop: the guard goes without giving its permit back.
TabGuard_drop_keeps_permit(r) ==
    /\ tasks' = tasks \cup
          {[req |-> r, id |-> guard[r].id, tab |-> guard[r].tab, st |-> "push"]}
    /\ guard' = [guard EXCEPT ![r] = NoGuard]
    /\ UNCHANGED <<permits, hasPermit>>

\* Mutant of AcquireFails: the error is returned and the permit is kept.
AcquireFails_keeps_permit(r, res) ==
    /\ result' = res
    /\ pc' = [pc EXCEPT ![r] = "done"]
    /\ UNCHANGED <<permits, hasPermit, guard, tasks>>

\* Mutant of DropPermit: the drop of a permit adds two permits.
DropPermit_adds_two(r) ==
    /\ permits' = permits + 2
    /\ hasPermit' = [hasPermit EXCEPT ![r] = FALSE]

\* The permit of r's acquire_tab call is dropped: Semaphore::add_permits(1).
DropPermit(r) ==
    /\ permits' = permits + 1
    /\ hasPermit' = [hasPermit EXCEPT ![r] = FALSE]

\* impl Drop for TabGuard: spawn the offer/expiry task, then the fields are
\* dropped, the permit among them.
TabGuard_drop(r) ==
    /\ tasks' = tasks \cup
          {[req |-> r, id |-> guard[r].id, tab |-> guard[r].tab, st |-> "push"]}
    /\ guard' = [guard EXCEPT ![r] = NoGuard]
    /\ DropPermit(r)

\* scrape_page returns res after acquire_tab succeeded: tab_guard goes out
\* of scope.
Return(r, res) ==
    /\ result' = res
    /\ pc' = [pc EXCEPT ![r] = "done"]
    /\ TabGuard_drop(r)

\* acquire_tab fails with `?`: the permit local is dropped, no guard exists.
AcquireFails(r, res) ==
    /\ result' = res
    /\ pc' = [pc EXCEPT ![r] = "done"]
    /\ DropPermit(r)
    /\ UNCHANGED <<guard, tasks>>

\* ------------------------------------------------------------ acquire_tab
PoolVars ==
    <<GlueVars, max_concurrent_tabs, idle_lock, readers,
      writer, idle_tabs, browser, dead, closed, closeCalls, tabProc, nextTab,
      nextProc, newProc, attempts, restarts>>

\* acquire_tab returns Ok(TabGuard { tab, tab_id, .. }) and scrape_page goes
\* on, in the same poll, to timeout(BROWSER_TIMEOUT_SECS, do_scrape(..)):
\* do_scrape hands its work on a clone of the tab to spawn_blocking (the
\* navigation closure, then the extraction closure) and awaits the
\* JoinHandle.  work[r] is the closure in flight.
Leased(r, t, i) ==
    /\ guard' = [guard EXCEPT ![r] = [tab |-> t, id |-> i]]
    /\ work' = [work EXCEPT ![r] = [tab |-> t, step |-> "blocking"]]
    /\ pc' = [pc EXCEPT ![r] = "await"]

\* Mutant of acquire_owned: the call does not wait for a free permit.
acquire_owned_no_wait(r) ==
    /\ pc[r] = "start"
    /\ \A q \in Req : q < r => pc[q] /= "start"
    /\ permits' = IF permits > 0 THEN permits - 1 ELSE 0
    /\ hasPermit' = [hasPermit EXCEPT ![r] = TRUE]
    /\ pc' = [pc EXCEPT ![r] = "reuse"]
    /\ UNCHANGED <<guard, result, work, tasks>>
    /\ UNCHANGED PoolVars

\* semaphore.acquire_owned().await.  The calls are alike, so they are
\* numbered in the order in which the semaphore serves them.
acquire_owned(r) ==
    /\ pc[r] = "start"
    /\ \A q \in Req : q < r => pc[q] /= "start"
    /\ permits > 0
    /\ permits' = permits - 1
    /\ hasPermit' = [hasPermit EXCEPT ![r] = TRUE]
    /\ pc' = [pc EXCEPT ![r] = "reuse"]
    /\ UNCHANGED <<guard, result, work, tasks>>
    /\ UNCHANGED PoolVars

\* Mutant of reuse_idle_tab: the entry is read with last() and stays in the
\* cache.
reuse_idle_tab_peek(r) ==
    /\ pc[r] = "reuse"
    /\ IF idle_tabs = <<>>
       THEN /\ pc' = [pc EXCEPT ![r] = "create"]
            /\ UNCHANGED <<guard, work>>
       ELSE IF Live(Last(idle_tabs).tab)
            THEN Leased(r, Last(idle_tabs).tab, Last(idle_tabs).id)
            ELSE /\ pc' = [pc EXCEPT ![r] = "create"]
                 /\ UNCHANGED <<guard, work>>
    /\ UNCHANGED <<GlueVars, max_concurrent_tabs, idle_lock, readers,
      writer, permits, hasPermit, idle_tabs, browser,
                   dead, closed, closeCalls, tabProc, nextTab, nextProc,
                   result, tasks, newProc, attempts, restarts>>

\* Mutant of reuse_idle_tab: the reused tab goes out under a new id, the
\* one the next created tab will get.
reuse_idle_tab_new_id(r) ==
    /\ pc[r] = "reuse"
    /\ IF idle_tabs = <<>>
       THEN /\ pc' = [pc EXCEPT ![r] = "create"]
            /\ UNCHANGED <<idle_tabs, guard, work>>
       ELSE /\ idle_tabs' = Front(idle_tabs)
            /\ IF Live(Last(idle_tabs).tab)
               THEN Leased(r, Last(idle_tabs).tab, nextTab)
               ELSE /\ pc' = [pc EXCEPT ![r] = "create"]
                    /\ UNCHANGED <<guard, work>>
    /\ UNCHANGED <<GlueVars, max_concurrent_tabs, idle_lock, readers, writer, permits,
                   hasPermit, browser, dead, closed, closeCalls, tabProc,
                   nextTab, nextProc, result, tasks, newProc, attempts,
                   restarts>>

\* Mutant of reuse_idle_tab: the oldest entry is taken, not the newest.
reuse_idle_tab_fifo(r) ==
    /\ pc[r] = "reuse"
    /\ IF idle_tabs = <<>>
       THEN /\ pc' = [pc EXCEPT ![r] = "create"]
            /\ UNCHANGED <<idle_tabs, guard, work>>
       ELSE /\ idle_tabs' = Tail(idle_tabs)
            /\ IF Live(Head(idle_tabs).tab)
               THEN Leased(r, Head(idle_tabs).tab, Head(idle_tabs).id)
               ELSE /\ pc' = [pc EXCEPT ![r] = "create"]
                    /\ UNCHANGED <<guard, work>>
    /\ UNCHANGED <<GlueVars, max_concurrent_tabs, idle_lock, readers, writer, permits,
                   hasPermit, browser, dead, closed, closeCalls, tabProc,
                   nextTab, nextProc, result, tasks, newProc, attempts,
                   restarts>>

\* "Try reusing idle tab": idle_tabs.pop() and the liveness probe.
reuse_idle_tab(r) ==
    /\ pc[r] = "reuse"
    /\ IF idle_tabs = <<>>
       THEN /\ pc' = [pc EXCEPT ![r] = "create"]
            /\ UNCHANGED <<idle_tabs, guard, work>>
       ELSE /\ idle_tabs' = Front(idle_tabs)
            /\ IF Live(Last(idle_tabs).tab)
               THEN Leased(r, Last(idle_tabs).tab, Last(idle_tabs).id)
               ELSE /\ pc' = [pc EXCEPT ![r] = "create"]
                    /\ UNCHANGED <<guard, work>>
    /\ UNCHANGED <<GlueVars, max_concurrent_tabs, idle_lock, readers,
      writer, permits, hasPermit, browser, dead, closed,
                   closeCalls, tabProc, nextTab, nextProc, result,
                   tasks, newProc, attempts, restarts>>

\* -------------------------------------------------- create_tab_with_retry
\* The counters of a create_tab_with_retry call end with the call.
EndCreate(r) ==
    /\ attempts' = [attempts EXCEPT ![r] = 0]
    /\ restarts' = [restarts EXCEPT ![r] = 0]

\* What browser.new_tab() can answer on process p: a process whose
\* connection is lost answers with a connection error text; a connected one
\* gives a tab or refuses with another error.
NewTabOutcomes(p) ==
    IF p \in dead THEN ConnErrMsgs ELSE {"Ok"} \cup OtherErrMsgs

\* self.browser.read().await and browser.new_tab(), first or second call,
\* under the read guard: Ok(tab), then tab_id = Uuid::new_v4() and the
\* TabGuard of acquire_tab.
new_tab_ok(r) ==
    /\ pc[r] \in {"create", "create2"}
    /\ "Ok" \in NewTabOutcomes(browser)
    /\ tabProc' = [tabProc EXCEPT ![nextTab] = browser]
    /\ nextTab' = nextTab + 1
    /\ Leased(r, nextTab, nextTab)
    /\ EndCreate(r)
    /\ UNCHANGED <<GlueVars, max_concurrent_tabs, idle_lock, readers,
      writer, permits, hasPermit, idle_tabs, browser, dead, closed,
                   closeCalls, nextProc, result, tasks, newProc>>

\* Mutant of new_tab_err: every error of the first new_tab call is taken
\* for a lost connection.
new_tab_err_always_restarts(r) ==
    /\ pc[r] = "create"
    /\ \E e \in NewTabOutcomes(browser) \ {"Ok"} :
        /\ pc' = [pc EXCEPT ![r] = "restart"]
        /\ attempts' = [attempts EXCEPT ![r] = @ + 1]
        /\ UNCHANGED <<permits, hasPermit, result, guard, tasks, restarts>>
    /\ UNCHANGED <<GlueVars, max_concurrent_tabs, idle_lock, readers,
      writer, idle_tabs, browser, dead, closed,
                   closeCalls, tabProc, nextTab, nextProc, work, newProc>>

\* Err(e) of the first new_tab call: drop(browser) and go on to the restart
\* if e reads as a lost connection, return AppError::Browser otherwise.
new_tab_err(r) ==
    /\ pc[r] = "create"
    /\ \E e \in NewTabOutcomes(browser) \ {"Ok"} :
        IF is_connection_error(e)
        THEN /\ pc' = [pc EXCEPT ![r] = "restart"]
             /\ attempts' = [attempts EXCEPT ![r] = @ + 1]
             /\ UNCHANGED <<permits, hasPermit, result, guard, tasks, restarts>>
        ELSE /\ AcquireFails(r, "Browser")
             /\ EndCreate(r)
    /\ UNCHANGED <<GlueVars, max_concurrent_tabs, idle_lock, readers,
      writer, idle_tabs, browser, dead, closed, closeCalls, tabProc,
                   nextTab, nextProc, work, newProc>>

\* Mutant of new_tab_err_after_restart: a lost connection is answered with
\* another restart.
new_tab_err_restarts_again(r) ==
    /\ pc[r] = "create2"
    /\ \E e \in NewTabOutcomes(browser) \ {"Ok"} :
        IF is_connection_error(e)
        THEN /\ pc' = [pc EXCEPT ![r] = "restart"]
             /\ attempts' = [attempts EXCEPT ![r] = @ + 1]
             /\ UNCHANGED <<permits, hasPermit, result, guard, tasks, restarts>>
        ELSE /\ AcquireFails(r, "Browser")
             /\ EndCreate(r)
    /\ UNCHANGED <<GlueVars, max_concurrent_tabs, idle_lock, readers,
      writer, idle_tabs, browser, dead, closed,
                   closeCalls, tabProc, nextTab, nextProc, work, newProc>>

\* Err(e) of the new_tab call after the restart: returned whatever e says.
new_tab_err_after_restart(r) ==
    /\ pc[r] = "create2"
    /\ \E e \in NewTabOutcomes(browser) \ {"Ok"} :
        /\ AcquireFails(r, "Browser")
        /\ EndCreate(r)
    /\ UNCHANGED <<GlueVars, max_concurrent_tabs, idle_lock, readers,
      writer, idle_tabs, browser, dead, closed, closeCalls, tabProc,
                   nextTab, nextProc, work, newProc>>

\* --------------------------------------------------------- restart_browser
\* idle_tabs.lock().await; idle_tabs.clear(); then Self::launch_browser()?
\* succeeds: a fresh process, not yet installed.
restart_launch_ok(r) ==
    /\ pc[r] = "restart"
    /\ idle_tabs' = <<>>
    /\ restarts' = [restarts EXCEPT ![r] = @ + 1]
    /\ newProc' = [newProc EXCEPT ![r] = nextProc]
    /\ nextProc' = nextProc + 1
    /\ pc' = [pc EXCEPT ![r] = "install"]
    /\ UNCHANGED <<GlueVars, max_concurrent_tabs, idle_lock, readers,
      writer, permits, hasPermit, browser, dead, closed,
                   closeCalls, tabProc, nextTab, guard, result, work,
                   tasks, attempts>>

\* Mutant of restart_launch_err: the failed launch is swallowed and
\* create_tab_with_retry goes on to its second new_tab call.
restart_launch_err_retries(r) ==
    /\ pc[r] = "restart"
    /\ idle_tabs' = <<>>
    /\ pc' = [pc EXCEPT ![r] = "create2"]
    /\ UNCHANGED <<permits, hasPermit, result, guard, tasks, attempts,
                   restarts>>
    /\ UNCHANGED <<GlueVars, max_concurrent_tabs, idle_lock, readers,
      writer, browser, dead, closed, closeCalls,
                   tabProc, nextTab, nextProc, work, newProc>>

\* idle_tabs.clear(); then Self::launch_browser()? fails: restart_browser,
\* create_tab_with_retry and acquire_tab return the Browser error.
restart_launch_err(r) ==
    /\ pc[r] = "restart"
    /\ idle_tabs' = <<>>
    /\ AcquireFails(r, "Browser")
    /\ attempts' = [attempts EXCEPT ![r] = 0]
    /\ restarts' = [restarts EXCEPT ![r] = 0]
    /\ UNCHANGED <<GlueVars, max_concurrent_tabs, idle_lock, readers,
      writer, browser, dead, closed, closeCalls,
                   tabProc, nextTab, nextProc, work, newProc>>

\* self.browser.write().await; *browser = Arc::new(new_browser).  The old
\* Arc<Browser> is dropped by the assignment, which ends its process.
install_browser(r) ==
    /\ pc[r] = "install"
    /\ browser' = newProc[r]
    /\ dead' = dead \cup {browser}
    /\ newProc' = [newProc EXCEPT ![r] = NoProc]
    /\ pc' = [pc EXCEPT ![r] = "create2"]
    /\ UNCHANGED <<GlueVars, max_concurrent_tabs, idle_lock, readers,
      writer, permits, hasPermit, idle_tabs, closed, closeCalls,
                   tabProc, nextTab, nextProc, guard, result, work,
                   tasks, attempts, restarts>>

\* The installed browser process loses its connection (environment).
Crash ==
    /\ browser \notin dead
    /\ dead' = dead \cup {browser}
    /\ UNCHANGED <<GlueVars, max_concurrent_tabs, idle_lock, readers,
      writer, permits, hasPermit, idle_tabs, browser, closed,
                   closeCalls, tabProc, nextTab, nextProc, pc, guard, result,
                   work, tasks, newProc, attempts, restarts>>

\* ---------------------------------------------------- scrape_page/do_scrape
\* One of the two awaited closures ends with an error: a failed call on the
\* tab, mapped to AppError::Browser, or a panic, which the JoinHandle
\* reports as a JoinError mapped to AppError::Internal.  `??` returns it
\* and scrape_page passes it on.
scrape_err(r) ==
    /\ pc[r] = "await"
    /\ \E out \in {"Browser", "Internal"} : Return(r, out)
    /\ work' = [work EXCEPT ![r] = NoWork]
    /\ UNCHANGED PoolVars

\* Both closures end with Ok, which takes a tab that answers: format the
\* PageExtractResult and return.  htmd::convert may fail for Markdown; Html
\* is returned as it is.
format_and_return(r) ==
    /\ pc[r] = "await"
    /\ Live(work[r].tab)
    /\ \E output_format \in {"Html", "Markdown"}, convert_ok \in BOOLEAN :
          Return(r, IF output_format = "Markdown" /\ ~convert_ok
                    THEN "Internal" ELSE "Ok")
    /\ work' = [work EXCEPT ![r] = NoWork]
    /\ UNCHANGED PoolVars

\* Mutant of scrape_timeout: the timed-out call returns and its guard lives
\* on, moved into the abandoned work.
scrape_timeout_keeps_lease(r) ==
    /\ pc[r] = "await"
    /\ result' = "Timeout"
    /\ pc' = [pc EXCEPT ![r] = "done"]
    /\ UNCHANGED <<permits, hasPermit, guard, tasks, work>>
    /\ UNCHANGED PoolVars

\* Mutant of scrape_timeout: the timed-out call takes the idle cache down
\* with it.
scrape_timeout_clears_cache(r) ==
    /\ pc[r] = "await"
    /\ Return(r, "Timeout")
    /\ idle_tabs' = <<>>
    /\ UNCHANGED <<GlueVars, max_concurrent_tabs, idle_lock, readers, writer, browser,
                   dead, closed, closeCalls, tabProc, nextTab, nextProc, work,
                   newProc, attempts, restarts>>

\* Mutant of scrape_timeout: the timer runs from the entry of scrape_page and
\* elapses during acquire_tab as well, once the permit is held.
scrape_timeout_from_entry(r) ==
    /\ pc[r] \notin {"start", "done"}
    /\ IF guard[r] /= NoGuard
       THEN Return(r, "Timeout")
       ELSE AcquireFails(r, "Timeout")
    /\ UNCHANGED work
    /\ UNCHANGED PoolVars

\* The timeout elapses while do_scrape is pending on a JoinHandle: the
\* do_scrape future is dropped, its JoinHandle with it, and scrape_page
\* returns AppError::Timeout.  Dropping a JoinHandle detaches the closure:
\* it keeps running on its clone of the tab.
scrape_timeout(r) ==
    /\ pc[r] = "await"
    /\ Return(r, "Timeout")
    /\ UNCHANGED work
    /\ UNCHANGED PoolVars

\* A detached closure ends; nobody observes its outcome.
detached_end(r) ==
    /\ pc[r] = "done"
    /\ work[r] /= NoWork
    /\ work' = [work EXCEPT ![r] = NoWork]
    /\ UNCHANGED <<permits, hasPermit, pc, guard, result, tasks>>
    /\ UNCHANGED PoolVars

\* ------------------------------------------- the task of TabGuard::drop
ReqVars == <<GlueVars, max_concurrent_tabs, idle_lock, readers,
      writer, permits, hasPermit, pc, guard, result, work>>

\* idle_tabs.lock().await; tabs.push(IdleTab { id, tab })
task_push(k) ==
    /\ k \in tasks
    /\ k.st = "push"
    /\ idle_tabs' = Append(idle_tabs, [id |-> k.id, tab |-> k.tab, by |-> k.req])
    /\ tasks' = (tasks \ {k}) \cup {[k EXCEPT !.st = "sleep"]}
    /\ UNCHANGED ReqVars
    /\ UNCHANGED <<browser, dead, closed, closeCalls, tabProc,
                   nextTab, nextProc, newProc, attempts, restarts>>

\* Mutant of task_expire: the task closes the tab it was spawned with, found
\* in the cache or not.
task_expire_closes_own_tab(k) ==
    /\ k \in tasks
    /\ k.st = "sleep"
    /\ tasks' = tasks \ {k}
    /\ LET pos == Position(idle_tabs, k.id) IN
       idle_tabs' = IF pos /= 0 THEN RemoveAt(idle_tabs, pos) ELSE idle_tabs
    /\ closed' = closed \cup {k.tab}
    /\ closeCalls' = [closeCalls EXCEPT ![k.tab] = @ + 1]
    /\ UNCHANGED ReqVars
    /\ UNCHANGED <<browser, dead, tabProc, nextTab, nextProc,
                   newProc, attempts, restarts>>

\* sleep(IDLE_TAB_TIMEOUT_SECS) is over: remove the first entry with the
\* task's tab_id, if there is one, and close its tab.
task_expire(k) ==
    /\ k \in tasks
    /\ k.st = "sleep"
    /\ tasks' = tasks \ {k}
    /\ LET pos == Position(idle_tabs, k.id) IN
       IF pos /= 0
       THEN /\ idle_tabs' = RemoveAt(idle_tabs, pos)
            /\ closed' = closed \cup {idle_tabs[pos].tab}
            /\ closeCalls' = [closeCalls EXCEPT ![idle_tabs[pos].tab] = @ + 1]
       ELSE UNCHANGED <<idle_tabs, closed, closeCalls>>
    /\ UNCHANGED ReqVars
    /\ UNCHANGED <<browser, dead, tabProc, nextTab, nextProc,
                   newProc, attempts, restarts>>

\* ----------------------------------------------------------------- stats
\* BrowserManager::stats: the snapshot it would return in this state.
stats ==
    [max_concurrent |-> max_concurrent_tabs,
     available_slots |-> permits,
     idle_tabs |-> Len(idle_tabs),
     active_tabs |-> max_concurrent_tabs - permits]

\* Every variable of the BrowserManager, its calls and its tasks.
ManagerVars ==
    <<max_concurrent_tabs, idle_lock, readers, writer, permits, hasPermit,
      idle_tabs, browser, dead, closed, closeCalls, tabProc, nextTab,
      nextProc, pc, guard, result, work, tasks, newProc, attempts, restarts>>

\* Mutant of stats_len: the call takes the newest entry out of the cache.
stats_len_pops ==
    /\ stats_pc = "start"
    /\ idle_count' = Len(idle_tabs)
    /\ idle_tabs' = IF idle_tabs = <<>> THEN idle_tabs ELSE Front(idle_tabs)
    /\ stats_pc' = "len"
    /\ UNCHANGED <<stats_out, ResponseVars, HandlerVars, returned, url_str>>
    /\ UNCHANGED <<max_concurrent_tabs, idle_lock, readers, writer, permits,
                   hasPermit, browser, dead, closed, closeCalls, tabProc,
                   nextTab, nextProc, pc, guard, result, work, tasks, newProc,
                   attempts, restarts>>

\* let idle_count = self.idle_tabs.lock().await.len(): the MutexGuard is a
\* temporary of the statement, so the mutex is free again when it ends.
stats_len ==
    /\ stats_pc = "start"
    /\ idle_count' = Len(idle_tabs)
    /\ stats_pc' = "len"
    /\ UNCHANGED <<stats_out, ResponseVars, HandlerVars, returned, url_str>>
    /\ UNCHANGED ManagerVars

\* Mutant of stats_return: active_tabs is given the idle count.
stats_return_idle_as_active ==
    /\ stats_pc = "len"
    /\ LET available_permits == permits IN
       stats_out' = Some([max_concurrent |-> max_concurrent_tabs,
                          available_slots |-> available_permits,
                          idle_tabs |-> idle_count,
                          active_tabs |-> idle_count])
    /\ stats_pc' = "done"
    /\ UNCHANGED <<idle_count, ResponseVars, HandlerVars, returned, url_str>>
    /\ UNCHANGED ManagerVars

\* let available_permits = self.semaphore.available_permits(), read after
\* the mutex was given back, and the BrowserStats that stats() returns.
stats_return ==
    /\ stats_pc = "len"
    /\ LET available_permits == permits IN
       stats_out' = Some([max_concurrent |-> max_concurrent_tabs,
                          available_slots |-> available_permits,
                          idle_tabs |-> idle_count,
                          active_tabs |-> max_concurrent_tabs - available_permits])
    /\ stats_pc' = "done"
    /\ UNCHANGED <<idle_count, ResponseVars, HandlerVars, returned, url_str>>
    /\ UNCHANGED ManagerVars

\* One call of stats() (the health handler) beside the scrape_page calls,
\* while the browser process stays connected.
NextStats ==
    \/ \E r \in Req : acquire_owned(r)
    \/ \E r \in Req : reuse_idle_tab(r)
    \/ \E r \in Req : new_tab_ok(r)
    \/ \E r \in Req : new_tab_err(r)
    \/ \E r \in Req : scrape_err(r)
    \/ \E r \in Req : format_and_return(r)
    \/ \E r \in Req : scrape_timeout(r)
    \/ \E r \in Req : detached_end(r)
    \/ \E k \in tasks : task_push(k)
    \/ \E k \in tasks : task_expire(k)
    \/ stats_len
    \/ stats_return

SpecStats == Init /\ [][NextStats]_vars

\* ===================== the format step, AppError and ScrapeResponse
\* SpecResponse applies the functions that turn the outcome of a scrape
\* into the HTTP response, each to inputs drawn by InitResponse: code,
\* status_code and into_response to an AppError, the format step of
\* do_scrape to a PageExtractResult and an OutputFormat, and
\* scrape_handler to what do_scrape returned.  returned holds the function
\* called last and its value.

\* Payloads of the AppError variants that carry a String.
Msgs == {"", "test", "10s"}

AppErrors ==
    {[kind |-> k, msg |-> m] :
        k \in {"Timeout", "Browser", "LlmProvider", "InvalidRequest", "Internal"},
        m \in Msgs}
    \cup {[kind |-> k, msg |-> ""] : k \in {"Unauthorized", "GeminiKeyNotConfigured"}}

\* Mutant of code: Internal is reported under the code of Browser.
code_internal_as_browser(e) ==
    CASE e.kind = "Timeout" -> "TIMEOUT_EXCEEDED"
      [] e.kind = "Browser" -> "BROWSER_ERROR"
      [] e.kind = "Unauthorized" -> "UNAUTHORIZED"
      [] e.kind = "GeminiKeyNotConfigured" -> "GEMINI_KEY_NOT_CONFIGURED"
      [] e.kind = "LlmProvider" -> "LLM_PROVIDER_ERROR"
      [] e.kind = "InvalidRequest" -> "INVALID_REQUEST"
      [] e.kind = "Internal" -> "BROWSER_ERROR"

\* AppError::code
code(e) ==
    CASE e.kind = "Timeout" -> "TIMEOUT_EXCEEDED"
      [] e.kind = "Browser" -> "BROWSER_ERROR"
      [] e.kind = "Unauthorized" -> "UNAUTHORIZED"
      [] e.kind = "GeminiKeyNotConfigured" -> "GEMINI_KEY_NOT_CONFIGURED"
      [] e.kind = "LlmProvider" -> "LLM_PROVIDER_ERROR"
      [] e.kind = "InvalidRequest" -> "INVALID_REQUEST"
      [] e.kind = "Internal" -> "INTERNAL_ERROR"

\* The constants of http::StatusCode that status_code names.
StatusCode ==
    [REQUEST_TIMEOUT |-> 408,
     INTERNAL_SERVER_ERROR |-> 500,
     UNAUTHORIZED |-> 401,
     SERVICE_UNAVAILABLE |-> 503,
     BAD_GATEWAY |-> 502,
     BAD_REQUEST |-> 400]

\* Mutant of status_code: the status depends on the payload.
status_code_by_payload(e) ==
    CASE e.kind = "Timeout" -> StatusCode.REQUEST_TIMEOUT
      [] e.kind = "Browser" ->
            IF e.msg = "" THEN StatusCode.BAD_GATEWAY
            ELSE StatusCode.INTERNAL_SERVER_ERROR
      [] e.kind = "Unauthorized" -> StatusCode.UNAUTHORIZED
      [] e.kind = "GeminiKeyNotConfigured" -> StatusCode.SERVICE_UNAVAILABLE
      [] e.kind = "LlmProvider" -> StatusCode.BAD_GATEWAY
      [] e.kind = "InvalidRequest" -> StatusCode.BAD_REQUEST
      [] e.kind = "Internal" -> StatusCode.INTERNAL_SERVER_ERROR

\* AppError::status_code
status_code(e) ==
    CASE e.kind = "Timeout" -> StatusCode.REQUEST_TIMEOUT
      [] e.kind = "Browser" -> StatusCode.INTERNAL_SERVER_ERROR
      [] e.kind = "Unauthorized" -> StatusCode.UNAUTHORIZED
      [] e.kind = "GeminiKeyNotConfigured" -> StatusCode.SERVICE_UNAVAILABLE
      [] e.kind = "LlmProvider" -> StatusCode.BAD_GATEWAY
      [] e.kind = "InvalidRequest" -> StatusCode.BAD_REQUEST
      [] e.kind = "Internal" -> StatusCode.INTERNAL_SERVER_ERROR

\* The Display that #[error(..)] derives: the text of the variant, with the
\* payload put in for {0}.
to_string(e) ==
    CASE e.kind = "Timeout" -> <<"Timeout exceeded: ", e.msg>>
      [] e.kind = "Browser" -> <<"Browser error: ", e.msg>>
      [] e.kind = "Unauthorized" -> <<"Unauthorized: Invalid or missing API key">>
      [] e.kind = "GeminiKeyNotConfigured" -> <<"Gemini API key not configured">>
      [] e.kind = "LlmProvider" -> <<"LLM provider error: ", e.msg>>
      [] e.kind = "InvalidRequest" -> <<"Invalid request: ", e.msg>>
      [] e.kind = "Internal" -> <<"Internal error: ", e.msg>>

\* ScrapeResponse::success
ScrapeResponse_success(data) ==
    [success |-> TRUE, data |-> Some(data), error |-> None]

\* Mutant of ScrapeResponse_error: the error response claims success.
ScrapeResponse_error_as_success(code_, message) ==
    [success |-> TRUE,
     data |-> None,
     error |-> Some([code |-> code_, message |-> message])]

\* ScrapeResponse::error
ScrapeResponse_error(code_, message) ==
    [success |-> FALSE,
     data |-> None,
     error |-> Some([code |-> code_, message |-> message])]

\* impl IntoResponse for AppError: the status and the Json body.
into_response(e) ==
    [status |-> status_code(e),
     body |-> ScrapeResponse_error(code(e), to_string(e))]

\* Body markup the page can have, and what htmd::convert makes of it when
\* it succeeds.
BodyHtmls == {"<body></body>", "<body><p>a</p></body>", "<body><h1>a</h1></body>"}

htmd_convert(body_html) ==
    CASE body_html = "<body></body>" -> ""
      [] body_html = "<body><p>a</p></body>" -> "a"
      [] body_html = "<body><h1>a</h1></body>" -> "# a"

PageExtractResults ==
    {[title |-> t, og_tags |-> og, body_html |-> b] :
        t \in {"", "Example"},
        og \in {{}, {<<"og:title", "Example">>}},
        b \in BodyHtmls}

InitResponse ==
    /\ InitManager
    /\ stats_pc = "start"
    /\ idle_count = 0
    /\ stats_out = None
    /\ app_error \in {Some(e) : e \in AppErrors}
    /\ extract_result \in {Some(x) : x \in PageExtractResults}
    /\ request_output_format \in {"Html", "Markdown"}
    /\ convert_calls = 0
    /\ returned = None
    /\ url_str = None
    /\ InitHandler

ReturnsValue(fn, value) ==
    /\ returned' = Some([fn |-> fn, value |-> value])
    /\ UNCHANGED <<StatsVars, HandlerVars, url_str>>
    /\ UNCHANGED ManagerVars

AppError_code ==
    /\ returned = None
    /\ ReturnsValue("code", code(app_error[1]))
    /\ UNCHANGED ResponseVars

AppError_status_code ==
    /\ returned = None
    /\ ReturnsValue("status_code", status_code(app_error[1]))
    /\ UNCHANGED ResponseVars

AppError_into_response ==
    /\ returned = None
    /\ ReturnsValue("into_response", into_response(app_error[1]))
    /\ UNCHANGED ResponseVars

\* Mutant of do_scrape_format: the body goes through htmd::convert whatever
\* the format.
do_scrape_format_always_converts ==
    /\ returned = None
    /\ LET metadata == [title |-> extract_result[1].title,
                        og_tags |-> extract_result[1].og_tags]
       IN  /\ convert_calls' = convert_calls + 1
           /\ \E convert_ok \in BOOLEAN :
                IF convert_ok
                THEN ReturnsValue("do_scrape",
                        [ok |-> TRUE, metadata |-> metadata,
                         content |-> htmd_convert(extract_result[1].body_html)])
                ELSE ReturnsValue("do_scrape",
                        [ok |-> FALSE,
                         err |-> [kind |-> "Internal",
                                  msg |-> "Markdown conversion failed"]])
    /\ UNCHANGED <<app_error, extract_result, request_output_format>>

\* do_scrape after the extraction: PageMetadata from the title and og_tags,
\* the content for output_format, and Ok((metadata, content)); a failing
\* htmd::convert is mapped to AppError::Internal and returned by `?`.
do_scrape_format ==
    /\ returned = None
    /\ LET metadata == [title |-> extract_result[1].title,
                        og_tags |-> extract_result[1].og_tags]
       IN  IF request_output_format = "Html"
           THEN /\ ReturnsValue("do_scrape",
                      [ok |-> TRUE, metadata |-> metadata,
                       content |-> extract_result[1].body_html])
                /\ UNCHANGED convert_calls
           ELSE /\ convert_calls' = convert_calls + 1
                /\ \E convert_ok \in BOOLEAN :
                     IF convert_ok
                     THEN ReturnsValue("do_scrape",
                             [ok |-> TRUE, metadata |-> metadata,
                              content |-> htmd_convert(extract_result[1].body_html)])
                     ELSE ReturnsValue("do_scrape",
                             [ok |-> FALSE,
                              err |-> [kind |-> "Internal",
                                       msg |-> "Markdown conversion failed"]])
    /\ UNCHANGED <<app_error, extract_result, request_output_format>>

\* scrape_handler after scrape_page returned Ok: the analysis, if one was
\* asked for, gives a result or an error text, and the response is
\* ScrapeResponse::success.
scrape_handler_ok ==
    /\ returned /= None
    /\ returned[1].fn = "do_scrape"
    /\ returned[1].value.ok
    /\ \E analysis \in {<<None, None>>, <<Some("result"), None>>,
                        <<None, Some("error")>>} :
          ReturnsValue("scrape_handler",
             ScrapeResponse_success(
                [metadata |-> returned[1].value.metadata,
                 content |-> returned[1].value.content,
                 analysis_result |-> analysis[1],
                 analysis_error |-> analysis[2]]))
    /\ UNCHANGED ResponseVars

\* scrape_handler after scrape_page returned Err(e): `?` returns e, which
\* axum turns into the response with into_response.
scrape_handler_err ==
    /\ returned /= None
    /\ returned[1].fn = "do_scrape"
    /\ ~returned[1].value.ok
    /\ app_error' = Some(returned[1].value.err)
    /\ ReturnsValue("into_response", into_response(returned[1].value.err))
    /\ UNCHANGED <<extract_result, request_output_format, convert_calls>>

NextResponse ==
    \/ AppError_code
    \/ AppError_status_code
    \/ AppError_into_response
    \/ do_scrape_format
    \/ scrape_handler_ok
    \/ scrape_handler_err

SpecResponse == InitResponse /\ [][NextResponse]_vars

\* ============================================================ validate_url
\* SpecValidate applies validate_url to the URL texts InitValidate draws.
\* A text is given by its scheme ("" when it has none, as "not-a-url") and
\* by what stands in the place of the host: a name as its labels, an IPv4
\* literal as its octets, an IPv6 literal, or nothing.

HostText(form, labels, octets, v6, bracketed) ==
    [form |-> form, labels |-> labels, octets |-> octets, v6 |-> v6,
     bracketed |-> bracketed]

NoHostText == HostText("none", <<>>, <<>>, "", FALSE)

\* In a URL an IPv6 literal stands in brackets.
HostTexts ==
    {HostText("name", l, <<>>, "", FALSE) :
        l \in {<<"example", "com">>, <<"Example", "COM">>, <<"localhost">>,
               <<"LOCALHOST">>, <<"api", "localhost">>, <<"API", "LocalHost">>,
               <<"notlocalhost">>, <<"localhost", "example", "com">>}}
    \cup {HostText("v4", <<>>, o, "", FALSE) :
        o \in {<<127, 0, 0, 1>>, <<10, 0, 0, 1>>, <<172, 16, 0, 1>>,
               <<172, 32, 0, 1>>, <<192, 168, 1, 1>>, <<169, 254, 1, 1>>,
               <<255, 255, 255, 255>>, <<0, 0, 0, 0>>, <<8, 8, 8, 8>>}}
    \cup {HostText("v6", <<>>, <<>>, a, TRUE) :
        a \in {"::1", "::", "2606:4700::1111"}}

UrlStrs ==
    {[scheme |-> sc, host |-> h] :
        sc \in {"http", "https", "ftp", "file", ""},
        h \in HostTexts \cup {NoHostText}}

\* char::to_lowercase over the labels drawn.
to_lowercase(label) ==
    CASE label = "Example" -> "example"
      [] label = "COM" -> "com"
      [] label = "LOCALHOST" -> "localhost"
      [] label = "LocalHost" -> "localhost"
      [] label = "API" -> "api"
      [] OTHER -> label

\* Url::parse: a text without a scheme is a relative URL and fails without
\* a base; http, https and ftp need a host; a name is stored in lower case.
Url_parse(text) ==
    IF text.scheme = ""
    THEN [ok |-> FALSE, url |-> None]
    ELSE IF text.scheme \in {"http", "https", "ftp"} /\ text.host = NoHostText
    THEN [ok |-> FALSE, url |-> None]
    ELSE [ok |-> TRUE,
          url |-> Some([scheme |-> text.scheme,
                        host |-> IF text.host = NoHostText THEN None
                                 ELSE Some([text.host EXCEPT
                                    !.labels = [i \in DOMAIN @ |-> to_lowercase(@[i])]])])]

\* Url::host_str: the host as it stands in the serialization of the URL,
\* an IPv6 address in its brackets.
host_str(url) == url.host

\* str::parse::<IpAddr>: dotted octets, or an IPv6 address without
\* brackets; None for Err.
parse_IpAddr(host) ==
    IF host.form = "v4" THEN Some(host)
    ELSE IF host.form = "v6" /\ ~host.bracketed THEN Some(host)
    ELSE None

\* is_private_ip: is_loopback, is_private, is_link_local, is_broadcast and
\* is_unspecified of Ipv4Addr; is_loopback and is_unspecified of Ipv6Addr.
is_private_ip(ip) ==
    IF ip.form = "v4"
    THEN LET v4 == ip.octets IN
         \/ v4[1] = 127
         \/ v4[1] = 10 \/ (v4[1] = 172 /\ v4[2] \in 16..31)
                       \/ (v4[1] = 192 /\ v4[2] = 168)
         \/ (v4[1] = 169 /\ v4[2] = 254)
         \/ v4 = <<255, 255, 255, 255>>
         \/ v4 = <<0, 0, 0, 0>>
    ELSE ip.v6 = "::1" \/ ip.v6 = "::"

InvalidRequest(msg) == [ok |-> FALSE, err |-> [kind |-> "InvalidRequest", msg |-> msg]]

validate_url(text) ==
    LET parsed == Url_parse(text) IN
    IF ~parsed.ok THEN InvalidRequest("Invalid URL")
    ELSE LET url == parsed.url[1] IN
    IF url.scheme \notin {"http", "https"} THEN InvalidRequest("Invalid scheme")
    ELSE IF host_str(url) = None THEN InvalidRequest("Missing host")
    ELSE LET host == host_str(url)[1]
             ip == parse_IpAddr(host)
             host_lower == [i \in DOMAIN host.labels |-> to_lowercase(host.labels[i])]
         IN
    IF ip /= None /\ is_private_ip(ip[1])
    THEN InvalidRequest("Private IP not allowed")
    ELSE IF host.form = "name"
            /\ \/ host_lower = <<"localhost">>
               \/ (Len(host_lower) > 1 /\ Last(host_lower) = "localhost")
    THEN InvalidRequest("Localhost not allowed")
    ELSE [ok |-> TRUE, url |-> url]

InitValidate ==
    /\ InitManager
    /\ stats_pc = "start"
    /\ idle_count = 0
    /\ stats_out = None
    /\ app_error = None
    /\ extract_result = None
    /\ request_output_format = "Markdown"
    /\ convert_calls = 0
    /\ returned = None
    /\ url_str \in {Some(u) : u \in UrlStrs}
    /\ InitHandler

validate_url_returns ==
    /\ returned = None
    /\ ReturnsValue("validate_url", validate_url(url_str[1]))
    /\ UNCHANGED ResponseVars

NextValidate == validate_url_returns

SpecValidate == InitValidate /\ [][NextValidate]_vars

\* --------------------------------------------------------- scrape_handler
\* Values API_KEY can be set to; "changeme" stands when it is not set, and
\* a variable set to nothing gives the empty string.
ApiKeys == {"changeme", ""}

\* The requests that arrive: the x-api-key header (None when the request
\* has none), the url and the analysis_request of the body.
Requests ==
    {[x_api_key |-> h, url |-> u, analysis_request |-> a] :
        h \in {None, Some("changeme"), Some("wrong"), Some("")},
        u \in {[scheme |-> "https",
                host |-> HostText("name", <<"example", "com">>, <<>>, "", FALSE)],
               [scheme |-> "http",
                host |-> HostText("name", <<"localhost">>, <<>>, "", FALSE)],
               [scheme |-> "", host |-> NoHostText]},
        a \in {None, Some("prompt")}}

\* headers.get(API_KEY_HEADER).and_then(|v| v.to_str().ok()).unwrap_or("")
provided_key(req) == IF req.x_api_key = None THEN "" ELSE req.x_api_key[1]

\* a.as_bytes().ct_eq(b.as_bytes()).into()
secure_compare(a, b) == a = b

\* What scrape_page hands back with Ok.
ScrapedPages ==
    {[metadata |-> [title |-> "Example", og_tags |-> {}], content |-> c] :
        c \in {"", "# a"}}

\* What GeminiClient::analyze returns: the parsed output, or
\* GeminiKeyNotConfigured, or an LlmProvider error.
AnalyzeResults ==
    {[ok |-> TRUE, value |-> "result"],
     [ok |-> FALSE, err |-> [kind |-> "GeminiKeyNotConfigured", msg |-> ""]],
     [ok |-> FALSE, err |-> [kind |-> "LlmProvider", msg |-> "test"]]}

\* The server with its API_KEY, before the first request.
InitHandlerSpec ==
    /\ InitManager
    /\ stats_pc = "start"
    /\ idle_count = 0
    /\ stats_out = None
    /\ app_error = None
    /\ extract_result = None
    /\ request_output_format = "Markdown"
    /\ convert_calls = 0
    /\ returned = None
    /\ url_str = None
    /\ api_key \in ApiKeys
    /\ request = None
    /\ handler_pc = "idle"
    /\ served = 0

\* axum calls scrape_handler with the headers and the body of a request.
scrape_handler_called ==
    /\ handler_pc = "idle"
    /\ served < NReq
    /\ \E req \in Requests : request' = Some(req)
    /\ handler_pc' = "key"
    /\ returned' = None
    /\ url_str' = None
    /\ app_error' = None
    /\ UNCHANGED <<api_key, served, StatsVars, extract_result,
                   request_output_format, convert_calls>>
    /\ UNCHANGED ManagerVars

\* if !secure_compare(provided_key, &state.api_key) { return
\* Err(AppError::Unauthorized) }
scrape_handler_key ==
    /\ handler_pc = "key"
    /\ IF ~secure_compare(provided_key(request[1]), api_key)
       THEN LET e == [kind |-> "Unauthorized", msg |-> ""] IN
            /\ app_error' = Some(e)
            /\ returned' = Some([fn |-> "into_response", value |-> into_response(e)])
            /\ handler_pc' = "idle"
       ELSE /\ handler_pc' = "url"
            /\ UNCHANGED <<app_error, returned>>
    /\ UNCHANGED <<api_key, request, served, url_str, StatsVars,
                   extract_result, request_output_format, convert_calls>>
    /\ UNCHANGED ManagerVars

\* let validated_url = validate_url(&request.url)?;
scrape_handler_url ==
    /\ handler_pc = "url"
    /\ url_str' = Some(request[1].url)
    /\ LET v == validate_url(request[1].url) IN
       IF ~v.ok
       THEN /\ app_error' = Some(v.err)
            /\ returned' = Some([fn |-> "into_response",
                                 value |-> into_response(v.err)])
            /\ handler_pc' = "idle"
       ELSE /\ handler_pc' = "scrape"
            /\ UNCHANGED <<app_error, returned>>
    /\ UNCHANGED <<api_key, request, served, StatsVars, extract_result,
                   request_output_format, convert_calls>>
    /\ UNCHANGED ManagerVars

\* state.browser.scrape_page(..).await is entered: the call after those
\* the handler has got back takes its permit.
scrape_handler_scrape_page(r) ==
    /\ handler_pc = "scrape"
    /\ r = served + 1
    /\ acquire_owned(r)

\* Mutant of scrape_handler_analyze: a failing analysis is returned with
\* `?` and fails the request.
scrape_handler_analyze_fails_request ==
    /\ handler_pc = "analyze"
    /\ \E a \in AnalyzeResults :
          IF a.ok
          THEN /\ returned' = Some([fn |-> "scrape_handler", value |->
                     ScrapeResponse_success(
                        [metadata |-> extract_result[1].metadata,
                         content |-> extract_result[1].content,
                         analysis_result |-> Some(a.value),
                         analysis_error |-> None])])
               /\ UNCHANGED app_error
          ELSE /\ app_error' = Some(a.err)
               /\ returned' = Some([fn |-> "into_response",
                                    value |-> into_response(a.err)])
    /\ handler_pc' = "idle"
    /\ UNCHANGED <<api_key, request, served, url_str, StatsVars,
                   extract_result, request_output_format, convert_calls>>
    /\ UNCHANGED ManagerVars

\* scrape_page has returned.  Err(e) is returned with `?`.  With Ok and no
\* analysis_request the handler returns ScrapeResponse::success with
\* (None, None); with an analysis_request it goes on to analyze.
scrape_handler_scraped ==
    /\ handler_pc = "scrape"
    /\ served < NReq
    /\ pc[served + 1] = "done"
    /\ served' = served + 1
    /\ IF result = "Ok"
       THEN \E page \in ScrapedPages :
              /\ extract_result' = Some(page)
              /\ UNCHANGED app_error
              /\ IF request[1].analysis_request /= None
                 THEN /\ handler_pc' = "analyze"
                      /\ UNCHANGED returned
                 ELSE /\ handler_pc' = "idle"
                      /\ returned' = Some([fn |-> "scrape_handler", value |->
                            ScrapeResponse_success(
                               [metadata |-> page.metadata,
                                content |-> page.content,
                                analysis_result |-> None,
                                analysis_error |-> None])])
       ELSE \E m \in Msgs :
              LET e == [kind |-> result, msg |-> m] IN
              /\ app_error' = Some(e)
              /\ returned' = Some([fn |-> "into_response",
                                   value |-> into_response(e)])
              /\ handler_pc' = "idle"
              /\ UNCHANGED extract_result
    /\ UNCHANGED <<api_key, request, url_str, StatsVars,
                   request_output_format, convert_calls>>
    /\ UNCHANGED ManagerVars

\* state.llm_client.analyze(&content, req).await: Ok(result) gives
\* (Some(result), None), Err(e) gives (None, Some(e.to_string())), and the
\* handler returns ScrapeResponse::success either way.
scrape_handler_analyze ==
    /\ handler_pc = "analyze"
    /\ \E a \in AnalyzeResults :
          LET analysis == IF a.ok THEN <<Some(a.value), None>>
                          ELSE <<None, Some(to_string(a.err))>>
          IN  returned' = Some([fn |-> "scrape_handler", value |->
                  ScrapeResponse_success(
                     [metadata |-> extract_result[1].metadata,
                      content |-> extract_result[1].content,
                      analysis_result |-> analysis[1],
                      analysis_error |-> analysis[2]])])
    /\ handler_pc' = "idle"
    /\ UNCHANGED <<api_key, request, served, url_str, StatsVars, app_error,
                   extract_result, request_output_format, convert_calls>>
    /\ UNCHANGED ManagerVars

NextHandler ==
    \/ scrape_handler_called
    \/ scrape_handler_key
    \/ scrape_handler_url
    \/ \E r \in Req : scrape_handler_scrape_page(r)
    \/ scrape_handler_scraped
    \/ scrape_handler_analyze
    \/ \E r \in Req : reuse_idle_tab(r)
    \/ \E r \in Req : new_tab_ok(r)
    \/ \E r \in Req : new_tab_err(r)
    \/ \E r \in Req : scrape_err(r)
    \/ \E r \in Req : format_and_return(r)
    \/ \E r \in Req : scrape_timeout(r)
    \/ \E r \in Req : detached_end(r)
    \/ \E k \in tasks : task_push(k)
    \/ \E k \in tasks : task_expire(k)

SpecHandler == InitHandlerSpec /\ [][NextHandler]_vars

\* ------------------------------------------------------------------ Next
Next ==
    \/ \E r \in Req : acquire_owned(r)
    \/ \E r \in Req : reuse_idle_tab(r)
    \/ \E r \in Req : new_tab_ok(r)
    \/ \E r \in Req : new_tab_err(r)
    \/ \E r \in Req : new_tab_err_after_restart(r)
    \/ \E r \in Req : restart_launch_ok(r)
    \/ \E r \in Req : restart_launch_err(r)
    \/ \E r \in Req : install_browser(r)
    \/ \E r \in Req : scrape_err(r)
    \/ \E r \in Req : format_and_return(r)
    \/ \E r \in Req : scrape_timeout(r)
    \/ \E r \in Req : detached_end(r)
    \/ \E k \in tasks : task_push(k)
    \/ \E k \in tasks : task_expire(k)
    \/ Crash

Spec == Init /\ [][Next]_vars

\* ============================================== the locks, step by step
\* SpecLocks runs the same calls and tasks with every lock operation as a
\* step of its own: a call or task that has taken a lock holds it in the
\* states between, and the others wait.  The scrape itself takes no lock:
\* it is left at its outcomes scrape_err and format_and_return; a timeout
\* gives the lease back as they do.

\* self.idle_tabs.lock().await of acquire_tab
acquire_tab_lock(r) ==
    /\ pc[r] = "reuse"
    /\ idle_lock = NoOwner
    /\ idle_lock' = [kind |-> "call", req |-> r]
    /\ pc' = [pc EXCEPT ![r] = "pop"]
    /\ UNCHANGED <<GlueVars, max_concurrent_tabs, readers, writer, permits, hasPermit,
                   idle_tabs, browser, dead, closed, closeCalls, tabProc,
                   nextTab, nextProc, guard, result, work, tasks, newProc,
                   attempts, restarts>>

\* idle_tabs.pop(), the probe, and the end of the block: the MutexGuard is
\* dropped.
idle_tabs_pop(r) ==
    /\ pc[r] = "pop"
    /\ idle_lock = [kind |-> "call", req |-> r]
    /\ idle_lock' = NoOwner
    /\ IF idle_tabs = <<>>
       THEN /\ pc' = [pc EXCEPT ![r] = "create"]
            /\ UNCHANGED <<idle_tabs, guard, work>>
       ELSE /\ idle_tabs' = Front(idle_tabs)
            /\ IF Live(Last(idle_tabs).tab)
               THEN Leased(r, Last(idle_tabs).tab, Last(idle_tabs).id)
               ELSE /\ pc' = [pc EXCEPT ![r] = "create"]
                    /\ UNCHANGED <<guard, work>>
    /\ UNCHANGED <<GlueVars, max_concurrent_tabs, readers, writer, permits, hasPermit,
                   browser, dead, closed, closeCalls, tabProc, nextTab,
                   nextProc, result, tasks, newProc, attempts, restarts>>

\* self.browser.read().await, first or second time: granted while no write
\* guard is out.
browser_read(r) ==
    /\ pc[r] \in {"create", "create2"}
    /\ writer = NoWriter
    /\ readers' = readers \cup {r}
    /\ pc' = [pc EXCEPT ![r] = IF pc[r] = "create" THEN "new_tab" ELSE "new_tab2"]
    /\ UNCHANGED <<GlueVars, max_concurrent_tabs, idle_lock, writer, permits, hasPermit,
                   idle_tabs, browser, dead, closed, closeCalls, tabProc,
                   nextTab, nextProc, guard, result, work, tasks, newProc,
                   attempts, restarts>>

\* browser.new_tab() under the read guard returns Ok(tab); the guard is
\* dropped with the return.
browser_new_tab_ok(r) ==
    /\ pc[r] \in {"new_tab", "new_tab2"}
    /\ r \in readers
    /\ "Ok" \in NewTabOutcomes(browser)
    /\ readers' = readers \ {r}
    /\ tabProc' = [tabProc EXCEPT ![nextTab] = browser]
    /\ nextTab' = nextTab + 1
    /\ Leased(r, nextTab, nextTab)
    /\ EndCreate(r)
    /\ UNCHANGED <<GlueVars, max_concurrent_tabs, idle_lock, writer, permits, hasPermit,
                   idle_tabs, browser, dead, closed, closeCalls, nextProc,
                   result, tasks, newProc>>

\* Mutant of browser_new_tab_err: the read guard is not dropped before the
\* restart.
browser_new_tab_err_keeps_guard(r) ==
    /\ pc[r] = "new_tab"
    /\ r \in readers
    /\ \E e \in NewTabOutcomes(browser) \ {"Ok"} :
        IF is_connection_error(e)
        THEN /\ pc' = [pc EXCEPT ![r] = "restart"]
             /\ attempts' = [attempts EXCEPT ![r] = @ + 1]
             /\ UNCHANGED <<readers, permits, hasPermit, result, guard, tasks,
                            restarts>>
        ELSE /\ readers' = readers \ {r}
             /\ AcquireFails(r, "Browser")
             /\ EndCreate(r)
    /\ UNCHANGED <<GlueVars, max_concurrent_tabs, idle_lock, writer, idle_tabs, browser,
                   dead, closed, closeCalls, tabProc, nextTab, nextProc, work,
                   newProc>>

\* The first new_tab returns Err(e): drop(browser) and on to the restart
\* for a connection error, return (dropping the guard) otherwise.
browser_new_tab_err(r) ==
    /\ pc[r] = "new_tab"
    /\ r \in readers
    /\ readers' = readers \ {r}
    /\ \E e \in NewTabOutcomes(browser) \ {"Ok"} :
        IF is_connection_error(e)
        THEN /\ pc' = [pc EXCEPT ![r] = "restart"]
             /\ attempts' = [attempts EXCEPT ![r] = @ + 1]
             /\ UNCHANGED <<permits, hasPermit, result, guard, tasks, restarts>>
        ELSE /\ AcquireFails(r, "Browser")
             /\ EndCreate(r)
    /\ UNCHANGED <<GlueVars, max_concurrent_tabs, idle_lock, writer, idle_tabs, browser,
                   dead, closed, closeCalls, tabProc, nextTab, nextProc, work,
                   newProc>>

\* The new_tab after the restart returns Err(e).
browser_new_tab_err_after_restart(r) ==
    /\ pc[r] = "new_tab2"
    /\ r \in readers
    /\ readers' = readers \ {r}
    /\ \E e \in NewTabOutcomes(browser) \ {"Ok"} :
        /\ AcquireFails(r, "Browser")
        /\ EndCreate(r)
    /\ UNCHANGED <<GlueVars, max_concurrent_tabs, idle_lock, writer, idle_tabs, browser,
                   dead, closed, closeCalls, tabProc, nextTab, nextProc, work,
                   newProc>>

\* self.idle_tabs.lock().await of restart_browser
restart_browser_lock(r) ==
    /\ pc[r] = "restart"
    /\ idle_lock = NoOwner
    /\ idle_lock' = [kind |-> "call", req |-> r]
    /\ pc' = [pc EXCEPT ![r] = "clear"]
    /\ UNCHANGED <<GlueVars, max_concurrent_tabs, readers, writer, permits, hasPermit,
                   idle_tabs, browser, dead, closed, closeCalls, tabProc,
                   nextTab, nextProc, guard, result, work, tasks, newProc,
                   attempts, restarts>>

\* idle_tabs.clear(), the MutexGuard is dropped, and launch_browser()
\* returns a launched Browser.
idle_tabs_clear_launch_ok(r) ==
    /\ pc[r] = "clear"
    /\ idle_lock = [kind |-> "call", req |-> r]
    /\ idle_lock' = NoOwner
    /\ idle_tabs' = <<>>
    /\ restarts' = [restarts EXCEPT ![r] = @ + 1]
    /\ newProc' = [newProc EXCEPT ![r] = nextProc]
    /\ nextProc' = nextProc + 1
    /\ pc' = [pc EXCEPT ![r] = "install"]
    /\ UNCHANGED <<GlueVars, max_concurrent_tabs, readers, writer, permits, hasPermit,
                   browser, dead, closed, closeCalls, tabProc, nextTab, guard,
                   result, work, tasks, attempts>>

\* idle_tabs.clear(), the MutexGuard is dropped, and launch_browser()?
\* returns the error.
idle_tabs_clear_launch_err(r) ==
    /\ pc[r] = "clear"
    /\ idle_lock = [kind |-> "call", req |-> r]
    /\ idle_lock' = NoOwner
    /\ idle_tabs' = <<>>
    /\ AcquireFails(r, "Browser")
    /\ EndCreate(r)
    /\ UNCHANGED <<GlueVars, max_concurrent_tabs, readers, writer, browser, dead, closed,
                   closeCalls, tabProc, nextTab, nextProc, work, newProc>>

\* Mutant of browser_write: the write guard is handed out while read guards
\* are out.
browser_write_no_wait(r) ==
    /\ pc[r] = "install"
    /\ writer = NoWriter
    /\ writer' = r
    /\ pc' = [pc EXCEPT ![r] = "swap"]
    /\ UNCHANGED <<GlueVars, max_concurrent_tabs, idle_lock, readers, permits, hasPermit,
                   idle_tabs, browser, dead, closed, closeCalls, tabProc,
                   nextTab, nextProc, guard, result, work, tasks, newProc,
                   attempts, restarts>>

\* self.browser.write().await: granted when no read guard and no write
\* guard is out.
browser_write(r) ==
    /\ pc[r] = "install"
    /\ readers = {}
    /\ writer = NoWriter
    /\ writer' = r
    /\ pc' = [pc EXCEPT ![r] = "swap"]
    /\ UNCHANGED <<GlueVars, max_concurrent_tabs, idle_lock, readers, permits, hasPermit,
                   idle_tabs, browser, dead, closed, closeCalls, tabProc,
                   nextTab, nextProc, guard, result, work, tasks, newProc,
                   attempts, restarts>>

\* *browser = Arc::new(new_browser); the write guard is dropped.
browser_swap(r) ==
    /\ pc[r] = "swap"
    /\ writer = r
    /\ writer' = NoWriter
    /\ browser' = newProc[r]
    /\ dead' = dead \cup {browser}
    /\ newProc' = [newProc EXCEPT ![r] = NoProc]
    /\ pc' = [pc EXCEPT ![r] = "create2"]
    /\ UNCHANGED <<GlueVars, max_concurrent_tabs, idle_lock, readers, permits, hasPermit,
                   idle_tabs, closed, closeCalls, tabProc, nextTab, nextProc,
                   guard, result, work, tasks, attempts, restarts>>

\* What a task of TabGuard::drop leaves alone.
TaskFrame ==
    <<GlueVars, max_concurrent_tabs, readers, writer, permits, hasPermit, browser, dead,
      tabProc, nextTab, nextProc, pc, guard, result, work, newProc, attempts,
      restarts>>

\* idle_tabs.lock().await of the task, before the push
task_push_lock(k) ==
    /\ k \in tasks
    /\ k.st = "push"
    /\ idle_lock = NoOwner
    /\ idle_lock' = [kind |-> "task", req |-> k.req]
    /\ tasks' = (tasks \ {k}) \cup {[k EXCEPT !.st = "pushing"]}
    /\ UNCHANGED <<idle_tabs, closed, closeCalls>>
    /\ UNCHANGED TaskFrame

\* tabs.push(IdleTab { id, tab }); the block ends and the task sleeps.
task_push_unlock(k) ==
    /\ k \in tasks
    /\ k.st = "pushing"
    /\ idle_lock = [kind |-> "task", req |-> k.req]
    /\ idle_lock' = NoOwner
    /\ idle_tabs' = Append(idle_tabs, [id |-> k.id, tab |-> k.tab, by |-> k.req])
    /\ tasks' = (tasks \ {k}) \cup {[k EXCEPT !.st = "sleep"]}
    /\ UNCHANGED <<closed, closeCalls>>
    /\ UNCHANGED TaskFrame

\* The sleep is over: idle_tabs.lock().await of the task, before the removal
task_expire_lock(k) ==
    /\ k \in tasks
    /\ k.st = "sleep"
    /\ idle_lock = NoOwner
    /\ idle_lock' = [kind |-> "task", req |-> k.req]
    /\ tasks' = (tasks \ {k}) \cup {[k EXCEPT !.st = "expiring"]}
    /\ UNCHANGED <<idle_tabs, closed, closeCalls>>
    /\ UNCHANGED TaskFrame

\* position, remove and close under the lock; the task ends.
task_expire_unlock(k) ==
    /\ k \in tasks
    /\ k.st = "expiring"
    /\ idle_lock = [kind |-> "task", req |-> k.req]
    /\ idle_lock' = NoOwner
    /\ tasks' = tasks \ {k}
    /\ LET pos == Position(idle_tabs, k.id) IN
       IF pos /= 0
       THEN /\ idle_tabs' = RemoveAt(idle_tabs, pos)
            /\ closed' = closed \cup {idle_tabs[pos].tab}
            /\ closeCalls' = [closeCalls EXCEPT ![idle_tabs[pos].tab] = @ + 1]
       ELSE UNCHANGED <<idle_tabs, closed, closeCalls>>
    /\ UNCHANGED TaskFrame

NextLocks ==
    \/ \E r \in Req : acquire_owned(r)
    \/ \E r \in Req : acquire_tab_lock(r)
    \/ \E r \in Req : idle_tabs_pop(r)
    \/ \E r \in Req : browser_read(r)
    \/ \E r \in Req : browser_new_tab_ok(r)
    \/ \E r \in Req : browser_new_tab_err(r)
    \/ \E r \in Req : browser_new_tab_err_after_restart(r)
    \/ \E r \in Req : restart_browser_lock(r)
    \/ \E r \in Req : idle_tabs_clear_launch_ok(r)
    \/ \E r \in Req : idle_tabs_clear_launch_err(r)
    \/ \E r \in Req : browser_write(r)
    \/ \E r \in Req : browser_swap(r)
    \/ \E r \in Req : scrape_err(r)
    \/ \E r \in Req : format_and_return(r)
    \/ \E k \in tasks : task_push_lock(k)
    \/ \E k \in tasks : task_push_unlock(k)
    \/ \E k \in tasks : task_expire_lock(k)
    \/ \E k \in tasks : task_expire_unlock(k)
    \/ Crash

SpecLocks == Init /\ [][NextLocks]_vars

\* ===================================================== a warmed-up pool
\* The pool as earlier calls (numbered 0) have left it.  They created the
\* tabs 1..NWarm, numbered here in the order in which they were offered;
\* the first process was lost and one of them has replaced it, so each tab
\* is of the lost process 1 or of the installed process 2; all have
\* returned and their tasks have pushed the tabs and sleep.
WarmTabs == 1..NWarm

InitWarm ==
    /\ max_concurrent_tabs \in 1..MaxCapacity
    /\ permits = max_concurrent_tabs
    /\ hasPermit = [r \in Req |-> FALSE]
    /\ idle_tabs = [t \in WarmTabs |-> [id |-> t, tab |-> t, by |-> 0]]
    /\ tasks = {[req |-> 0, id |-> t, tab |-> t, st |-> "sleep"] : t \in WarmTabs}
    /\ closed = {}
    /\ closeCalls = [t \in Tabs |-> 0]
    /\ browser = 2
    /\ dead = {1}
    /\ \E lost \in SUBSET WarmTabs :
          tabProc = [t \in Tabs |-> IF t \in lost THEN 1
                                    ELSE IF t \in WarmTabs THEN 2 ELSE NoProc]
    /\ nextTab = NWarm + 1
    /\ nextProc = 3
    /\ pc = [r \in Req |-> "start"]
    /\ guard = [r \in Req |-> NoGuard]
    /\ result = NoResult
    /\ work = [r \in Req |-> NoWork]
    /\ newProc = [r \in Req |-> NoProc]
    /\ attempts = [r \in Req |-> 0]
    /\ restarts = [r \in Req |-> 0]
    /\ idle_lock = NoOwner
    /\ readers = {}
    /\ writer = NoWriter
    /\ InitGlue

\* The calls on the warmed-up pool while process 2 stays connected; the
\* scrape is left at its outcomes scrape_err and format_and_return.
NextWarm ==
    \/ \E r \in Req : acquire_owned(r)
    \/ \E r \in Req : reuse_idle_tab(r)
    \/ \E r \in Req : new_tab_ok(r)
    \/ \E r \in Req : new_tab_err(r)
    \/ \E r \in Req : scrape_err(r)
    \/ \E r \in Req : format_and_return(r)
    \/ \E k \in tasks : task_push(k)
    \/ \E k \in tasks : task_expire(k)

SpecWarm == InitWarm /\ [][NextWarm]_vars

\* =================================================== do_scrape, step by step
\* SpecScrape follows the two spawn_blocking closures of do_scrape call by
\* call.  work[r].step is where the closure of call r stands: "blocking"
\* (the navigation closure is spawned), then the name of the last call that
\* returned Ok, "blocking_extract" (the extraction closure is spawned), or,
\* once a closure has ended with an error, the text of its AppError, or
\* "JoinError" when it panicked.  The browser process stays connected, and
\* the calls are served one after another: the steps of different calls
\* touch different closures and commute.

\* A call starts when no other call is in flight and no closure is left
\* running.
acquire_in_turn(r) ==
    /\ \A q \in Req : pc[q] \in {"start", "done"} /\ work[q] = NoWork
    /\ acquire_owned(r)

\* The message of the AppError::Browser each call of a closure is mapped to.
BrowserErrors ==
    [navigate_to |-> "Navigation failed",
     wait_until_navigated |-> "Navigation wait failed",
     wait_for_element |-> "Body element wait failed",
     evaluate |-> "JS evaluation failed",
     value |-> "No JS result",
     as_str |-> "Invalid JS result type",
     from_str |-> "JS result parse failed"]

BrowserErrorMsgs == {BrowserErrors[c] : c \in DOMAIN BrowserErrors}

\* A closure that has not returned yet: the JoinHandle is pending.
ClosureRunning(w) ==
    w.step \in {"blocking", "navigate_to", "wait_until_navigated",
                "blocking_extract", "evaluate", "value", "as_str"}

\* The closure of r makes the call `call`, which it reaches after `after`:
\* Ok and on, or Err, mapped, and `?` ends the closure.  The closure runs
\* on a blocking thread whether or not do_scrape still awaits it.
ClosureCall(r, after, call) ==
    /\ work[r] /= NoWork
    /\ work[r].step = after
    /\ \E ok \in BOOLEAN :
          work' = [work EXCEPT ![r].step = IF ok THEN call ELSE BrowserErrors[call]]
    /\ UNCHANGED <<permits, hasPermit, pc, guard, result, tasks>>
    /\ UNCHANGED PoolVars

navigate_to(r) == ClosureCall(r, "blocking", "navigate_to")
wait_until_navigated(r) == ClosureCall(r, "navigate_to", "wait_until_navigated")
wait_for_element(r) == ClosureCall(r, "wait_until_navigated", "wait_for_element")
evaluate(r) == ClosureCall(r, "blocking_extract", "evaluate")
result_value(r) == ClosureCall(r, "evaluate", "value")
as_str(r) == ClosureCall(r, "value", "as_str")
from_str(r) == ClosureCall(r, "as_str", "from_str")

\* A closure panics: its JoinHandle resolves to Err(JoinError).
closure_panics(r) ==
    /\ work[r] /= NoWork
    /\ ClosureRunning(work[r])
    /\ work' = [work EXCEPT ![r].step = "JoinError"]
    /\ UNCHANGED <<permits, hasPermit, pc, guard, result, tasks>>
    /\ UNCHANGED PoolVars

\* Mutant of spawn_extract: the outcome of the navigation closure is not
\* looked at.
spawn_extract_unchecked(r) ==
    /\ pc[r] = "await"
    /\ work[r].step \in {"wait_for_element", "JoinError"} \cup BrowserErrorMsgs
    /\ work' = [work EXCEPT ![r].step = "blocking_extract"]
    /\ UNCHANGED <<permits, hasPermit, pc, guard, result, tasks>>
    /\ UNCHANGED PoolVars

\* The first .await returns Ok(Ok(())): do_scrape goes on and spawns the
\* extraction closure on a new clone of the tab.
spawn_extract(r) ==
    /\ pc[r] = "await"
    /\ work[r].step = "wait_for_element"
    /\ work' = [work EXCEPT ![r].step = "blocking_extract"]
    /\ UNCHANGED <<permits, hasPermit, pc, guard, result, tasks>>
    /\ UNCHANGED PoolVars

\* Mutant of join_err: every failure of a closure is reported as Internal.
join_err_all_internal(r) ==
    /\ pc[r] = "await"
    /\ work[r].step \in BrowserErrorMsgs \cup {"JoinError"}
    /\ Return(r, "Internal")
    /\ work' = [work EXCEPT ![r] = NoWork]
    /\ UNCHANGED PoolVars

\* An .await returns an error: Err(JoinError), mapped to
\* AppError::Internal("Task join error"), or Ok(Err(e)) with the closure's
\* AppError::Browser; `??` returns it and scrape_page passes it on.
join_err(r) ==
    /\ pc[r] = "await"
    /\ work[r].step \in BrowserErrorMsgs \cup {"JoinError"}
    /\ Return(r, IF work[r].step = "JoinError" THEN "Internal" ELSE "Browser")
    /\ work' = [work EXCEPT ![r] = NoWork]
    /\ UNCHANGED PoolVars

\* The second .await returns Ok(Ok(extract_result)): the content is made
\* for output_format, where htmd::convert may fail, and do_scrape returns.
format_content(r) ==
    /\ pc[r] = "await"
    /\ work[r].step = "from_str"
    /\ \E output_format \in {"Html", "Markdown"}, convert_ok \in BOOLEAN :
          Return(r, IF output_format = "Markdown" /\ ~convert_ok
                    THEN "Internal" ELSE "Ok")
    /\ work' = [work EXCEPT ![r] = NoWork]
    /\ UNCHANGED PoolVars

\* The timer of scrape_page fires while do_scrape is pending in one of its
\* two awaits: AppError::Timeout, and the closure is left running.
timeout_elapsed(r) ==
    /\ pc[r] = "await"
    /\ ClosureRunning(work[r])
    /\ Return(r, "Timeout")
    /\ UNCHANGED work
    /\ UNCHANGED PoolVars

\* A closure left behind by a timeout returns; its result is dropped.
detached_closure_ends(r) ==
    /\ pc[r] = "done"
    /\ work[r] /= NoWork
    /\ ~ClosureRunning(work[r])
    /\ work' = [work EXCEPT ![r] = NoWork]
    /\ UNCHANGED <<permits, hasPermit, pc, guard, result, tasks>>
    /\ UNCHANGED PoolVars

NextScrape ==
    \/ \E r \in Req : acquire_in_turn(r)
    \/ \E r \in Req : reuse_idle_tab(r)
    \/ \E r \in Req : new_tab_ok(r)
    \/ \E r \in Req : new_tab_err(r)
    \/ \E r \in Req : navigate_to(r)
    \/ \E r \in Req : wait_until_navigated(r)
    \/ \E r \in Req : wait_for_element(r)
    \/ \E r \in Req : spawn_extract(r)
    \/ \E r \in Req : evaluate(r)
    \/ \E r \in Req : result_value(r)
    \/ \E r \in Req : as_str(r)
    \/ \E r \in Req : from_str(r)
    \/ \E r \in Req : closure_panics(r)
    \/ \E r \in Req : join_err(r)
    \/ \E r \in Req : format_content(r)
    \/ \E r \in Req : timeout_elapsed(r)
    \/ \E r \in Req : detached_closure_ends(r)
    \/ \E k \in tasks : task_push(k)
    \/ \E k \in tasks : task_expire(k)

SpecScrape == Init /\ [][NextScrape]_vars

\* ================================================================ claims
HoldsPermit == {r \in Req : hasPermit[r]}

\* C1: in every reachable state the number of outstanding leases (TabGuards,
\* each holding a permit) is at most the capacity given to
\* BrowserManager::new.
C1_LeasesWithinCapacity ==
    /\ Cardinality(Leases) <= max_concurrent_tabs
    /\ Cardinality(HoldsPermit) <= max_concurrent_tabs

\* Every permit is out in a lease while another call waits at the gate.
C1_Witness ==
    /\ Cardinality(Leases) = max_concurrent_tabs
    /\ permits = 0
    /\ \E r \in Req : pc[r] = "start"

\* C2: permits are conserved (none is lost, none is returned twice): the
\* free permits and the permits held add up to the capacity; a lease always
\* holds its permit, and a call that has returned, whichever way, holds
\* neither a lease nor a permit.
C2_PermitReturnedOnce ==
    /\ permits + Cardinality(HoldsPermit) = max_concurrent_tabs
    /\ \A r \in Req : guard[r] /= NoGuard => hasPermit[r]
    /\ \A r \in Req : pc[r] = "done" => ~hasPermit[r] /\ guard[r] = NoGuard
    /\ \A r \in Req : pc[r] = "start" => ~hasPermit[r]

\* A scrape failed with an Internal error after its lease was obtained, its
\* guard was dropped and every permit is back.
C2_Witness ==
    /\ result = "Internal"
    /\ tasks /= {}
    /\ permits = max_concurrent_tabs

\* C3: a call that leaves its await while its blocking work is still in
\* flight (the overall timeout elapsed first) returns Timeout, and with that
\* step its guard is gone and its permit is back in the semaphore.
C3_TimeoutReleasesLease ==
    [][\A r \in Req :
          (pc[r] = "await" /\ pc'[r] = "done" /\ work'[r] /= NoWork)
          => /\ result' = "Timeout"
             /\ guard'[r] = NoGuard
             /\ ~hasPermit'[r]
             /\ permits' = permits + 1]_vars

\* A call has timed out, its work still runs, and its slot is free again.
C3_Witness ==
    /\ result = "Timeout"
    /\ \E r \in Req : pc[r] = "done" /\ work[r] /= NoWork /\ ~hasPermit[r]
    /\ permits = max_concurrent_tabs

\* C4: when acquire_tab fails after taking its permit (first creation,
\* restart or second creation fails), that step returns a Browser error,
\* gives the permit back, and no guard was or is held by the call: none is
\* dropped, so nothing is offered to the cache.
C4_FailedAcquireReturnsPermit ==
    [][\A r \in Req :
          (pc[r] \in {"create", "restart", "create2"} /\ pc'[r] = "done")
          => /\ result' = "Browser"
             /\ hasPermit[r] /\ ~hasPermit'[r]
             /\ permits' = permits + 1
             /\ guard[r] = NoGuard /\ guard'[r] = NoGuard
             /\ tasks' = tasks]_vars

\* An acquire failed before any tab was ever created, and all permits are
\* free.
C4_Witness ==
    /\ result = "Browser"
    /\ nextTab = 1
    /\ \E r \in Req : pc[r] = "done"
    /\ permits = max_concurrent_tabs

\* C5 (as claimed): blocking work runs on a tab only while the request that
\* started it holds the lease of that tab.
C5_WorkOnlyUnderLease ==
    \A r \in Req : work[r] /= NoWork => guard[r].tab = work[r].tab

\* C6 (as claimed): an acquire that looks into the cache while a released
\* live tab is within its grace period (its task has not expired) and is
\* not leased again reclaims a tab, and no tab is created.
C6_ReleasedTabIsReclaimed ==
    [][\A r \in Req :
          (/\ pc[r] = "reuse"
           /\ pc'[r] /= "reuse"
           /\ \E k \in tasks : Live(k.tab) /\ k.tab \notin LeasedTabs)
          => (pc'[r] = "await" /\ nextTab' = nextTab)]_vars

Created == 1..(nextTab - 1)

\* C8 (as claimed): once every call has returned and every grace period is
\* over, no offered tab is left behind: stats() counts no idle tab, and
\* every tab that was created (each was offered when its lease ended) has
\* been closed, or is gone with its process.
C8_OfferedTabsEndClosed ==
    ((\A r \in Req : pc[r] = "done") /\ tasks = {})
    => /\ stats.idle_tabs = 0
       /\ \A t \in Created : t \in closed \/ tabProc[t] \in dead

\* C9 (as claimed): an expiring task removes no entry but the one it
\* offered.
C9_StaleTimerIsNoOp ==
    [][\A k \in tasks :
          (k.st = "sleep" /\ k \notin tasks')
          => \A i \in 1..Len(idle_tabs) :
                idle_tabs[i].by /= k.req =>
                   \E j \in 1..Len(idle_tabs') : idle_tabs'[j] = idle_tabs[i]]_vars

\* C10: within one acquire there is at most one restart, it follows the
\* first failed creation, it installs the process it launched, and the
\* creation after it ends the call: with a tab of the installed process, or
\* with a Browser error and no change to the handle or the cache.
C10_OneRestartOneRetry ==
    /\ [](\A r \in Req : restarts[r] <= 1 /\ attempts[r] <= 1)
    /\ [][\A r \in Req :
            /\ (pc[r] = "create" /\ pc'[r] = "restart")
               => (restarts[r] = 0 /\ attempts'[r] = 1 /\ browser \in dead)
            /\ (pc[r] = "restart" /\ pc'[r] = "install") => restarts'[r] = 1
            /\ (pc[r] = "install" /\ pc'[r] = "create2") => browser' = newProc[r]
            /\ (pc[r] = "create2" /\ pc'[r] /= "create2")
               => \/ /\ pc'[r] = "await"
                     /\ tabProc'[guard'[r].tab] = browser
                     /\ browser \notin dead
                  \/ /\ pc'[r] = "done"
                     /\ result' = "Browser"
                     /\ browser' = browser
                     /\ idle_tabs' = idle_tabs
                     /\ nextProc' = nextProc]_vars

\* After its restart a call is about to try again on a process that is
\* lost already.
C10_Witness ==
    \E r \in Req :
        pc[r] = "create2" /\ restarts[r] = 1 /\ attempts[r] = 1 /\ browser \in dead

\* C11: a first creation that fails on a connected process (the error is
\* no connection error) ends the call in that step with a Browser error:
\* the call never goes on to a restart, no process is launched, no second
\* new_tab is made, no tab is created, and the browser handle and the idle
\* cache are what they were.
C11_HardFailureNoRestart ==
    [][\A r \in Req :
          /\ (pc[r] = "create" /\ browser \notin dead) => pc'[r] /= "restart"
          /\ (pc[r] = "create" /\ pc'[r] = "done")
             => /\ result' = "Browser"
                /\ browser' = browser
                /\ idle_tabs' = idle_tabs
                /\ nextProc' = nextProc
                /\ nextTab' = nextTab
                /\ dead' = dead
                /\ attempts[r] = 0 /\ attempts'[r] = 0
                /\ restarts[r] = 0 /\ restarts'[r] = 0
                /\ newProc'[r] = NoProc]_vars

\* No process was ever lost or launched; call 2 found the cache empty, then
\* call 1 offered its tab, and the creation of call 2 failed: the offer of
\* call 1 is still in the cache.
C11_Witness ==
    /\ result = "Browser"
    /\ dead = {}
    /\ nextProc = 2
    /\ nextTab = 2
    /\ pc[2] = "done"
    /\ idle_tabs = <<[id |-> 1, tab |-> 1, by |-> 1]>>

\* C12 (as claimed): the restart step that empties the cache leaves the tab
\* of every removed entry closed or gone with a lost process, or, when the
\* launch succeeded, on the process that the restart is about to replace.
C12_RestartClosesRemoved ==
    [][\A r \in Req :
          (pc[r] = "restart" /\ pc'[r] /= "restart")
          => /\ idle_tabs' = <<>>
             /\ \A t \in IdleTabSet :
                   \/ t \in closed'
                   \/ tabProc[t] \in dead'
                   \/ pc'[r] = "install" /\ tabProc[t] = browser]_vars

\* Processes whose launch_browser call has returned Ok.
Launched == 1..(nextProc - 1)

\* C13: the installed process is always one whose launch has completed; the
\* write guard is never out together with a read guard or a second write
\* guard; the handle changes only in the step of the call that holds the
\* write guard, to the process that call launched; and from the
\* read().await of a creation attempt to the return of its new_tab the
\* handle does not change, so the tab it creates is a tab of the one
\* process the attempt started on.
C13_HandleNeverTorn ==
    /\ [](/\ browser \in Launched
          /\ writer /= NoWriter => readers = {}
          /\ \A r \in Req : pc[r] = "swap" <=> writer = r)
    /\ [][/\ browser' /= browser
             => /\ writer /= NoWriter
                /\ readers = {}
                /\ browser' = newProc[writer]
                /\ browser' \in Launched
          /\ \A r \in readers : browser' = browser
          /\ \A r \in Req :
                (pc[r] \in {"new_tab", "new_tab2"} /\ pc'[r] = "await")
                => r \in readers /\ tabProc'[guard'[r].tab] = browser']_vars

\* A call holds a read guard for its new_tab while another call, its
\* replacement process launched, waits for the write guard.
C13_Witness ==
    \E r, q \in Req :
        /\ r \in readers
        /\ pc[q] = "install"
        /\ newProc[q] \in Launched

\* Some call or task has not finished.
Unfinished == (\E r \in Req : pc[r] /= "done") \/ tasks /= {}

\* Calls waiting for the write guard of the browser RwLock.
WaitingWriters == {r \in Req : pc[r] = "install"}

\* One step of a call or a task.  A read guard is counted as obtainable
\* only while no writer waits: the RwLock queues readers behind a waiting
\* writer.
PoolStep ==
    \/ \E r \in Req :
          \/ acquire_owned(r)
          \/ acquire_tab_lock(r)
          \/ idle_tabs_pop(r)
          \/ WaitingWriters = {} /\ browser_read(r)
          \/ browser_new_tab_ok(r)
          \/ browser_new_tab_err(r)
          \/ browser_new_tab_err_after_restart(r)
          \/ restart_browser_lock(r)
          \/ idle_tabs_clear_launch_ok(r)
          \/ idle_tabs_clear_launch_err(r)
          \/ browser_write(r)
          \/ browser_swap(r)
          \/ scrape_err(r)
          \/ format_and_return(r)
    \/ \E k \in tasks :
          \/ task_push_lock(k)
          \/ task_push_unlock(k)
          \/ task_expire_lock(k)
          \/ task_expire_unlock(k)

\* C17: while a call or a task is unfinished, some call or task can take a
\* step; whoever holds a lock can take the step that gives it back without
\* waiting for anything (the idle_tabs mutex, a read guard, the write
\* guard); and a call waiting at the semaphore can go on as soon as a
\* permit is free.
C17_NoDeadlock ==
    /\ Unfinished => ENABLED PoolStep
    /\ \A r \in Req :
          /\ idle_lock = [kind |-> "call", req |-> r]
             => ENABLED (\/ idle_tabs_pop(r)
                         \/ idle_tabs_clear_launch_ok(r)
                         \/ idle_tabs_clear_launch_err(r))
          /\ r \in readers
             => ENABLED (\/ browser_new_tab_ok(r)
                         \/ browser_new_tab_err(r)
                         \/ browser_new_tab_err_after_restart(r))
          /\ writer = r => ENABLED browser_swap(r)
    /\ \A k \in tasks :
          idle_lock = [kind |-> "task", req |-> k.req] /\ k.st \in {"pushing", "expiring"}
          => ENABLED (task_push_unlock(k) \/ task_expire_unlock(k))
    /\ idle_lock /= NoOwner
       => \/ \E r \in Req : idle_lock = [kind |-> "call", req |-> r]
                            /\ pc[r] \in {"pop", "clear"}
          \/ \E k \in tasks : idle_lock = [kind |-> "task", req |-> k.req]
                              /\ k.st \in {"pushing", "expiring"}
    /\ (permits > 0 /\ \E r \in Req : pc[r] = "start")
       => ENABLED (\E r \in Req : acquire_owned(r))

\* A call that holds the last permit waits, on its way into the restart,
\* for the idle_tabs mutex, which an expiring task holds.
C17_Witness ==
    /\ permits = 0
    /\ \E q \in Req : pc[q] = "restart" /\ hasPermit[q]
    /\ \E k \in tasks : k.st = "expiring" /\ idle_lock = [kind |-> "task", req |-> k.req]

\* C14 (as claimed): an acquire that finds an entry in the cache either
\* leases its tab, whose probe succeeded, or, the probe failing, removes the
\* entry, closes its tab and goes on to the creation with its permit.
C14_FailedProbeClosesTab ==
    [][\A r \in Req :
          (pc[r] = "reuse" /\ pc'[r] /= "reuse" /\ idle_tabs /= <<>>)
          => \/ /\ pc'[r] = "await"
                /\ Live(Last(idle_tabs).tab)
                /\ guard'[r].tab = Last(idle_tabs).tab
             \/ /\ pc'[r] = "create"
                /\ ~Live(Last(idle_tabs).tab)
                /\ idle_tabs' = Front(idle_tabs)
                /\ hasPermit'[r]
                /\ Last(idle_tabs).tab \in closed']_vars

\* The ids carried by a lease, a cache entry or a task of TabGuard::drop.
IdsInUse ==
    {guard[r].id : r \in Leases}
    \cup {idle_tabs[i].id : i \in 1..Len(idle_tabs)}
    \cup {k.id : k \in tasks}

\* C15: no id is twice in the idle cache or in two leases, or both leased
\* and in the cache; a tab carries the id it was created with (the model
\* numbers the Uuid like the tab it is made for) through every lease, task
\* and cache entry; a creation hands out an id that no lease,
\* task or entry carries; and a reclaim hands out the id and the tab of the
\* entry it removed.
C15_IdsUnique ==
    /\ [](/\ \A i, j \in 1..Len(idle_tabs) :
                i /= j => idle_tabs[i].id /= idle_tabs[j].id
          /\ \A r1, r2 \in Leases : r1 /= r2 => guard[r1].id /= guard[r2].id
          /\ \A r \in Leases, i \in 1..Len(idle_tabs) : guard[r].id /= idle_tabs[i].id
          /\ \A r \in Leases : guard[r].id = guard[r].tab
          /\ \A i \in 1..Len(idle_tabs) : idle_tabs[i].id = idle_tabs[i].tab
          /\ \A k \in tasks : k.id = k.tab)
    /\ [][\A r \in Req :
            /\ (pc[r] \in {"create", "create2"} /\ pc'[r] = "await")
               => guard'[r].id \notin IdsInUse
            /\ (pc[r] = "reuse" /\ pc'[r] = "await")
               => /\ guard'[r].id = Last(idle_tabs).id
                  /\ guard'[r].tab = Last(idle_tabs).tab
                  /\ idle_tabs' = Front(idle_tabs)]_vars

\* Call 2 reclaimed the tab call 1 had offered and has offered it again:
\* the entry carries the id of the first offer, whose task still sleeps.
C15_Witness ==
    /\ \E i \in 1..Len(idle_tabs) : idle_tabs[i].by = 2 /\ idle_tabs[i].id = 1
    /\ \E k \in tasks : k.req = 1 /\ k.id = 1 /\ k.st = "sleep"

\* Entry x is known to have been added to the cache after entry e: x was
\* offered by one of the calls, e by an earlier call, or both by earlier
\* calls, whose tabs are numbered in the order of their offers.
AddedAfter(x, e) ==
    \/ x.by /= 0 /\ e.by = 0
    \/ x.by = 0 /\ e.by = 0 /\ x.tab > e.tab

\* C16: an acquire that finds the cache empty goes on to the creation and
\* has taken nothing; one that finds entries examines exactly one, the
\* last of the sequence, which no entry still present is known to have
\* been added after, and leases its tab or, the probe failing, drops it;
\* every offer is appended at the end, and every removal keeps the order
\* of the entries that stay.
C16_ReclaimIsLifo ==
    [][/\ \A r \in Req :
            (pc[r] = "reuse" /\ pc'[r] /= "reuse")
            => IF idle_tabs = <<>>
               THEN pc'[r] = "create" /\ idle_tabs' = <<>> /\ guard'[r] = NoGuard
               ELSE /\ idle_tabs' = Front(idle_tabs)
                    /\ \A j \in 1..(Len(idle_tabs) - 1) :
                          ~AddedAfter(idle_tabs[j], Last(idle_tabs))
                    /\ pc'[r] = "await"
                       => guard'[r] = [tab |-> Last(idle_tabs).tab,
                                       id |-> Last(idle_tabs).id]
                    /\ pc'[r] = "create" => ~Live(Last(idle_tabs).tab)
       /\ \A k \in tasks :
            (k.st = "push" /\ k \notin tasks')
            => idle_tabs' = Append(idle_tabs,
                                   [id |-> k.id, tab |-> k.tab, by |-> k.req])
       /\ Len(idle_tabs') < Len(idle_tabs)
          => \E i \in 1..Len(idle_tabs) : idle_tabs' = RemoveAt(idle_tabs, i)]_vars

\* A call has reclaimed the tab offered last by the earlier calls while
\* their other offers, all older, are still in the cache.
C16_Witness ==
    \E r \in Req :
        /\ pc[r] = "await"
        /\ guard[r].tab = NWarm
        /\ Len(idle_tabs) = NWarm - 1
        /\ \A i \in 1..Len(idle_tabs) : idle_tabs[i].by = 0

\* C18: the step in which a call times out changes nothing of the pool but
\* the call's own lease: the handle, the processes, the cache and its
\* closed tabs, and every other call's position, lease, permit and work
\* are as before; the call's guard is gone, its permit is back, and the one
\* new task is the offer of the call's own tab.  The step in which a task
\* makes its offer appends that entry and touches no other entry, lease or
\* the handle.
C18_TimeoutTouchesOwnLeaseOnly ==
    [][/\ \A r \in Req :
            (pc[r] = "await" /\ pc'[r] = "done" /\ result' = "Timeout")
            => /\ browser' = browser
               /\ dead' = dead
               /\ newProc' = newProc
               /\ idle_tabs' = idle_tabs
               /\ closed' = closed
               /\ \A q \in Req \ {r} :
                     /\ guard'[q] = guard[q]
                     /\ hasPermit'[q] = hasPermit[q]
                     /\ pc'[q] = pc[q]
                     /\ work'[q] = work[q]
               /\ guard'[r] = NoGuard
               /\ permits' = permits + 1
               /\ tasks' = tasks \cup {[req |-> r, id |-> guard[r].id,
                                        tab |-> guard[r].tab, st |-> "push"]}
       /\ \A k \in tasks :
            (k.st = "push" /\ k \notin tasks')
            => /\ idle_tabs' = Append(idle_tabs,
                                      [id |-> k.id, tab |-> k.tab, by |-> k.req])
               /\ browser' = browser
               /\ guard' = guard
               /\ permits' = permits]_vars

\* Call r has just timed out, its offer is not made yet, and another call
\* holds a lease.
C18_Witness ==
    \E r, q \in Req :
        /\ result = "Timeout"
        /\ pc[r] = "done" /\ work[r] /= NoWork
        /\ \E k \in tasks : k.req = r /\ k.st = "push"
        /\ pc[q] = "await" /\ guard[q] /= NoGuard

\* The order of do_scrape, as values of work[r].step.
StepOrder ==
    <<"blocking", "navigate_to", "wait_until_navigated", "wait_for_element",
      "blocking_extract", "evaluate", "value", "as_str", "from_str">>

StepIndex(s) ==
    IF \E i \in 1..Len(StepOrder) : StepOrder[i] = s
    THEN CHOOSE i \in 1..Len(StepOrder) : StepOrder[i] = s
    ELSE 0

ClosureFailures == BrowserErrorMsgs \cup {"JoinError"}

\* C19: a scrape starts on the tab of the call's lease and stays on it; its
\* steps go navigate, wait for the navigation, wait for the body, then,
\* only once do_scrape has seen the navigation closure succeed, evaluate
\* and the reading of its result, then the formatting; each step is taken
\* from the state in which the step before it succeeded, a failure is the
\* failure of the step that was due, after a failure no step follows, and
\* the awaiting call returns that failure; a call returns Ok only after
\* the last step.
C19_StepsInOrder ==
    [][\A r \in Req :
          /\ (work[r] = NoWork /\ work'[r] /= NoWork)
             => /\ work'[r].step = "blocking"
                /\ work'[r].tab = guard'[r].tab
                /\ pc'[r] = "await"
          /\ (work[r] /= NoWork /\ work'[r] /= NoWork /\ work'[r] /= work[r])
             => /\ work'[r].tab = work[r].tab
                /\ StepIndex(work[r].step) \in 1..(Len(StepOrder) - 1)
                /\ \/ StepIndex(work'[r].step) = StepIndex(work[r].step) + 1
                   \/ work'[r].step = "JoinError"
                   \/ work'[r].step =
                         BrowserErrors[StepOrder[StepIndex(work[r].step) + 1]]
                /\ work[r].step = "wait_for_element"
                   => pc[r] = "await" /\ work'[r].step = "blocking_extract"
          /\ (pc[r] = "await" /\ pc'[r] = "done")
             => /\ work[r].tab = guard[r].tab
                /\ result' = "Ok" => work[r].step = "from_str"
                /\ work[r].step \in ClosureFailures
                   => result' \in {"Browser", "Internal"} /\ work'[r] = NoWork
                /\ (work[r].step = "from_str" /\ result' /= "Ok")
                   => result' = "Internal"]_vars

\* A scrape has returned Ok, and the next call, on its leased tab, has
\* every step but the formatting behind it.
C19_Witness ==
    /\ result = "Ok"
    /\ \E r \in Req :
          /\ pc[r] = "await"
          /\ work[r].step = "from_str"
          /\ work[r].tab = guard[r].tab

\* C20: a closure that fails in navigate_to, wait_until_navigated, the
\* body wait, evaluate or the reading of the result ends with the Browser
\* error of that call, and the awaiting call returns Browser; a panicked
\* closure makes it return Internal; after the last step it returns Ok or,
\* the Markdown conversion failing, Internal; and it returns Timeout
\* exactly when it leaves a closure behind that has not returned.
C20_ErrorKinds ==
    [][\A r \in Req :
          /\ (pc[r] = "await" /\ pc'[r] = "done")
             => /\ work[r].step \in
                      {"Navigation failed", "Navigation wait failed",
                       "Body element wait failed", "JS evaluation failed",
                       "No JS result", "Invalid JS result type",
                       "JS result parse failed"}
                   => result' = "Browser"
                /\ work[r].step = "JoinError" => result' = "Internal"
                /\ work[r].step = "from_str" => result' \in {"Ok", "Internal"}
                /\ result' = "Timeout"
                   <=> (ClosureRunning(work[r]) /\ work'[r] = work[r])
                /\ result' \in {"Ok", "Browser", "Internal", "Timeout"}
          /\ (pc[r] /= "done" /\ pc'[r] = "done" /\ result' = "Timeout")
             => pc[r] = "await"
          /\ (work[r] /= NoWork /\ work'[r] /= NoWork
              /\ work'[r].step \in BrowserErrorMsgs /\ work'[r] /= work[r])
             => work'[r].step =
                   CASE work[r].step = "blocking" -> "Navigation failed"
                     [] work[r].step = "navigate_to" -> "Navigation wait failed"
                     [] work[r].step = "wait_until_navigated" -> "Body element wait failed"
                     [] work[r].step = "blocking_extract" -> "JS evaluation failed"
                     [] work[r].step = "evaluate" -> "No JS result"
                     [] work[r].step = "value" -> "Invalid JS result type"
                     [] work[r].step = "as_str" -> "JS result parse failed"
                     [] OTHER -> "none"]_vars

\* One scrape has failed and returned Browser; in the next the closure has
\* panicked and the call is about to see the JoinError.
C20_Witness ==
    \E r, q \in Req :
        /\ result = "Browser"
        /\ pc[r] = "done"
        /\ \E k \in tasks : k.req = r
        /\ pc[q] = "await"
        /\ work[q].step = "JoinError"

\* C21: stats() reports as idle_tabs the length of the idle cache it read
\* under the mutex, and, from the permits free when it reads them, the
\* capacity as max_concurrent, that number as available_slots and the
\* capacity less that number as active_tabs, which is the number of
\* permits taken.
C21_StatsReportsCounts ==
    [][/\ (stats_pc = "start" /\ stats_pc' = "len")
          => idle_count' = Len(idle_tabs)
       /\ (stats_pc = "len" /\ stats_pc' = "done")
          => /\ stats_out' /= None
             /\ stats_out'[1].max_concurrent = max_concurrent_tabs
             /\ stats_out'[1].available_slots = permits
             /\ stats_out'[1].idle_tabs = idle_count
             /\ stats_out'[1].active_tabs = Cardinality(HoldsPermit)
             /\ stats_out'[1].active_tabs
                   = max_concurrent_tabs - stats_out'[1].available_slots]_vars

\* stats() has returned with one permit of two taken and one idle entry.
C21_Witness ==
    /\ stats_pc = "done"
    /\ stats_out /= None
    /\ stats_out[1].max_concurrent = 2
    /\ stats_out[1].available_slots = 1
    /\ stats_out[1].active_tabs = 1
    /\ stats_out[1].idle_tabs = 1

\* C22: no step of stats() changes the permits, the idle cache, the
\* browser handle, a lease, or any other variable of the pool.
C22_StatsObservesOnly ==
    [][stats_pc' /= stats_pc => UNCHANGED ManagerVars]_vars

\* stats() has returned while a lease is out and an entry is in the idle
\* cache, and both are as they were counted.
C22_Witness ==
    /\ stats_pc = "done"
    /\ stats_out /= None
    /\ Leases /= {}
    /\ idle_tabs /= <<>>
    /\ stats_out[1].idle_tabs = Len(idle_tabs)
    /\ stats_out[1].active_tabs = Cardinality(Leases)

\* What do_scrape returned, when it was called last and returned Ok.
ScrapedOk ==
    /\ returned /= None
    /\ returned[1].fn = "do_scrape"
    /\ returned[1].value.ok

\* C23: for the format Html a scrape that got its PageExtractResult
\* succeeds, its content is the body_html of the result as it is, and so
\* is the content of the response made from it; htmd::convert is called
\* only for the format Markdown, and once.
C23_HtmlIsBodyUnchanged ==
    /\ request_output_format = "Html"
       => /\ convert_calls = 0
          /\ (returned /= None /\ returned[1].fn = "do_scrape")
             => /\ returned[1].value.ok
                /\ returned[1].value.content = extract_result[1].body_html
          /\ (returned /= None /\ returned[1].fn = "scrape_handler")
             => returned[1].value.data[1].content = extract_result[1].body_html
    /\ convert_calls > 0
       => request_output_format = "Markdown" /\ convert_calls = 1

\* A scrape for Html has returned a body that htmd::convert would change.
C23_Witness ==
    /\ ScrapedOk
    /\ request_output_format = "Html"
    /\ returned[1].value.content = "<body><p>a</p></body>"
    /\ htmd_convert(extract_result[1].body_html) /= returned[1].value.content

\* C24: code gives TIMEOUT_EXCEEDED for Timeout, BROWSER_ERROR for Browser,
\* UNAUTHORIZED for Unauthorized, GEMINI_KEY_NOT_CONFIGURED for
\* GeminiKeyNotConfigured, LLM_PROVIDER_ERROR for LlmProvider,
\* INVALID_REQUEST for InvalidRequest and INTERNAL_ERROR for Internal,
\* whatever the payload, and two errors have the same code only if they
\* are of the same kind.
C24_CodeOfKind ==
    /\ (returned /= None /\ returned[1].fn = "code")
       => returned[1].value =
             [Timeout |-> "TIMEOUT_EXCEEDED",
              Browser |-> "BROWSER_ERROR",
              Unauthorized |-> "UNAUTHORIZED",
              GeminiKeyNotConfigured |-> "GEMINI_KEY_NOT_CONFIGURED",
              LlmProvider |-> "LLM_PROVIDER_ERROR",
              InvalidRequest |-> "INVALID_REQUEST",
              Internal |-> "INTERNAL_ERROR"][app_error[1].kind]
    /\ app_error /= None
       => \A e \in AppErrors :
             code(e) = code(app_error[1]) <=> e.kind = app_error[1].kind

\* code was called on an Internal error with a payload.
C24_Witness ==
    /\ returned /= None
    /\ returned[1].fn = "code"
    /\ app_error[1] = [kind |-> "Internal", msg |-> "test"]

\* A ScrapeResponse that was built.
Responses ==
    IF returned = None THEN {}
    ELSE IF returned[1].fn = "scrape_handler" THEN {returned[1].value}
    ELSE IF returned[1].fn = "into_response" THEN {returned[1].value.body}
    ELSE {}

\* C25: the response scrape_handler builds with ScrapeResponse::success
\* has success = true, the data and no error; the one into_response builds
\* with ScrapeResponse::error has success = false, no data, and the error
\* with the code and the message it was given; so every response has
\* exactly one of data and error, and success is true exactly when it has
\* data.
C25_DataXorError ==
    /\ (returned /= None /\ returned[1].fn = "scrape_handler")
       => /\ returned[1].value.success
          /\ returned[1].value.data /= None
          /\ returned[1].value.error = None
    /\ (returned /= None /\ returned[1].fn = "into_response")
       => /\ ~returned[1].value.body.success
          /\ returned[1].value.body.data = None
          /\ returned[1].value.body.error =
                Some([code |-> code(app_error[1]),
                      message |-> to_string(app_error[1])])
    /\ \A resp \in Responses :
          /\ (resp.data /= None) /= (resp.error /= None)
          /\ resp.success <=> resp.data /= None

\* The Markdown conversion failed and the error response was built.
C25_Witness ==
    /\ returned /= None
    /\ returned[1].fn = "into_response"
    /\ convert_calls = 1
    /\ returned[1].value.body.error[1].code = "INTERNAL_ERROR"

\* C26: status_code gives 408 for Timeout, 500 for Browser, 401 for
\* Unauthorized, 503 for GeminiKeyNotConfigured, 502 for LlmProvider, 400
\* for InvalidRequest and 500 for Internal, whatever the payload; it is
\* the status of the response into_response builds.
C26_StatusOfKind ==
    LET want == [Timeout |-> 408,
                 Browser |-> 500,
                 Unauthorized |-> 401,
                 GeminiKeyNotConfigured |-> 503,
                 LlmProvider |-> 502,
                 InvalidRequest |-> 400,
                 Internal |-> 500]
    IN  /\ (returned /= None /\ returned[1].fn = "status_code")
           => returned[1].value = want[app_error[1].kind]
        /\ (returned /= None /\ returned[1].fn = "into_response")
           => returned[1].value.status = want[app_error[1].kind]

\* status_code was called on a Browser error with an empty payload.
C26_Witness ==
    /\ returned /= None
    /\ returned[1].fn = "status_code"
    /\ app_error[1] = [kind |-> "Browser", msg |-> ""]
    /\ returned[1].value = 500

\* The texts the claim names, told from the text alone.
IsLocalhostText(h) ==
    /\ h.form = "name"
    /\ to_lowercase(Last(h.labels)) = "localhost"

IsPrivateLiteral(h) ==
    \/ h.form = "v4"
       /\ h.octets \in {<<127, 0, 0, 1>>, <<10, 0, 0, 1>>, <<172, 16, 0, 1>>,
                        <<192, 168, 1, 1>>, <<169, 254, 1, 1>>,
                        <<255, 255, 255, 255>>, <<0, 0, 0, 0>>}
    \/ h.form = "v6" /\ h.v6 \in {"::1", "::"}

\* C27: validate_url returns Ok only for a text that parses, with scheme
\* http or https and a host; it returns InvalidRequest for every text whose
\* host is localhost or ends in .localhost, in any case of the letters, or
\* is an IP literal of a loopback, private, link-local, broadcast or
\* unspecified address; and it returns Ok for every http or https text
\* with another host.
C27_ValidateUrl ==
    (returned /= None /\ returned[1].fn = "validate_url")
    => LET text == url_str[1]
           res == returned[1].value
       IN  /\ res.ok => /\ text.scheme \in {"http", "https"}
                         /\ text.host /= NoHostText
           /\ ~res.ok => res.err.kind = "InvalidRequest"
           /\ (IsLocalhostText(text.host) \/ IsPrivateLiteral(text.host))
              => ~res.ok
           /\ (/\ text.scheme \in {"http", "https"}
               /\ text.host /= NoHostText
               /\ ~IsLocalhostText(text.host)
               /\ ~IsPrivateLiteral(text.host))
              => res.ok

\* C28: every tab in the idle cache was created from the installed
\* process: once a restart has installed its process, no tab of a process
\* that was replaced is in the cache, whenever it was released.
C28_NoIdleTabOfReplacedProcess ==
    \A i \in 1..Len(idle_tabs) : tabProc[idle_tabs[i].tab] = browser

\* C29: no step leaves more than one launched process waiting to be
\* installed, and the process a restart replaces is one that has lost its connection: a
\* process that a restart installed and that is still connected is not
\* replaced by a restart started on its predecessor's failure.
C29_OneReplacementPerLoss ==
    [][/\ Cardinality({r \in Req : newProc'[r] /= NoProc}) <= 1
       /\ browser' /= browser => browser \in dead]_vars

\* C30: the tabs held in leases and the entries of the idle cache are
\* together never more than max_concurrent_tabs.
C30_OpenTabsWithinCapacity ==
    Cardinality(LeasedTabs) + Len(idle_tabs) <= max_concurrent_tabs

\* C31: tab ownership is exclusive.  After every step no tab is both in the
\* idle cache and in an outstanding lease and no leased tab is closed; a step
\* closes a tab only if the tab was in the idle cache before the step, is out
\* of it after the step and was in no lease (the expiry task closes the tab
\* of the entry it has itself removed).
C31_TabOwnershipExclusive ==
    [][/\ LeasedTabs' \cap IdleTabSet' = {}
       /\ LeasedTabs' \cap closed' = {}
       /\ \A t \in closed' \ closed :
             /\ t \in IdleTabSet
             /\ t \notin IdleTabSet'
             /\ t \notin LeasedTabs
             /\ t \notin LeasedTabs']_vars

\* An expiry task has closed a cached tab while another tab is out on a
\* lease: the closed tab is in neither the cache nor a lease.
C31_Witness ==
    \E t \in closed :
        /\ Leases /= {}
        /\ t \notin LeasedTabs
        /\ t \notin IdleTabSet
        /\ closeCalls[t] = 1

\* C32: the timeout timer of scrape_page runs only once acquire_tab has
\* returned a lease.  A call that holds no lease (it waits for a permit,
\* probes an idle tab, creates a tab or restarts the browser) cannot time
\* out, and every step in which a call returns Timeout is the step of a call
\* that holds its lease and its permit and is awaiting do_scrape.
C32_TimeoutOnlyAfterLease ==
    [][\A r \in Req :
          /\ guard[r] = NoGuard => ~ENABLED scrape_timeout(r)
          /\ (pc[r] /= "done" /\ pc'[r] = "done" /\ result' = "Timeout")
                => /\ pc[r] = "await"
                   /\ guard[r] /= NoGuard
                   /\ hasPermit[r]]_vars

\* A call that had its lease (the task of its dropped guard is there) has
\* returned Timeout while another call, in the middle of a browser restart,
\* holds its permit and no lease.
C32_Witness ==
    /\ result = "Timeout"
    /\ \E r, q \in Req :
          /\ pc[q] = "done"
          /\ \E k \in tasks : k.req = q
          /\ pc[r] = "install"
          /\ hasPermit[r]
          /\ guard[r] = NoGuard

\* C33: when the launch of the replacement process fails during a restart
\* (the call leaves restart_browser with no process launched), the acquire
\* returns a Browser error in that step: no second new_tab call is made and
\* no tab is created or leased, the installed browser handle is the one it
\* was, and the permit of the acquire is given back.
C33_FailedLaunchEndsAcquire ==
    [][\A r \in Req :
          (pc[r] = "restart" /\ pc'[r] /= "restart" /\ newProc'[r] = NoProc)
            => /\ pc'[r] = "done"
               /\ result' = "Browser"
               /\ attempts[r] = 1
               /\ nextTab' = nextTab
               /\ guard'[r] = NoGuard
               /\ browser' = browser
               /\ hasPermit[r] /\ ~hasPermit'[r]
               /\ permits' = permits + 1]_vars

\* A call has ended with a Browser error in a failed launch: it holds no
\* permit and left no task (it never had a lease), no process was ever
\* launched and the lost process is still the installed one, and the tab
\* another call had released to the cache is gone from the cache without
\* having been closed or leased, which only the restart of this call does.
C33_Witness ==
    \E r \in Req, k \in tasks :
        /\ pc[r] = "done"
        /\ result = "Browser"
        /\ ~hasPermit[r]
        /\ \A j \in tasks : j.req /= r
        /\ nextProc = 2
        /\ browser = 1
        /\ browser \in dead
        /\ k.st = "sleep"
        /\ k.tab \notin IdleTabSet \cup LeasedTabs \cup closed
        /\ idle_tabs = <<>>
        /\ closed = {}

\* C34: in every reachable state the number of free permits is between 0 and
\* the configured capacity, and every snapshot stats() has returned was
\* computed without underflow: its active_tabs is between 0 and the capacity
\* and active_tabs + available_slots = max_concurrent.
C34_PermitsWithinCapacity ==
    /\ permits \in 0..max_concurrent_tabs
    /\ stats_out /= None =>
          LET s == stats_out[1] IN
          /\ s.available_slots \in 0..s.max_concurrent
          /\ s.active_tabs \in 0..s.max_concurrent
          /\ s.active_tabs + s.available_slots = s.max_concurrent

\* stats() has returned a snapshot read when every permit was taken
\* (available_slots 0, active_tabs the whole capacity of more than one), and
\* all permits have been given back since.
C34_Witness ==
    /\ stats_out /= None
    /\ stats_out[1].available_slots = 0
    /\ stats_out[1].active_tabs = max_concurrent_tabs
    /\ max_concurrent_tabs > 1
    /\ permits = max_concurrent_tabs

\* The request being served has no x-api-key header, or one that is not
\* the configured key.
KeyMissingOrWrong ==
    \/ request[1].x_api_key = None
    \/ request[1].x_api_key[1] /= api_key

\* The handler has returned the error response of kind k.
RejectedWith(k) ==
    /\ handler_pc = "idle"
    /\ app_error /= None
    /\ app_error[1].kind = k
    /\ returned = Some([fn |-> "into_response",
                        value |-> into_response(app_error[1])])

\* C35: scrape_handler touches the pool only after the key and the URL
\* were both accepted, in this order.  The key step of a request whose key
\* is missing or wrong ends the request with Unauthorized, validate_url not
\* having been called; the URL step of a request whose URL fails validation
\* ends it with InvalidRequest; neither step changes anything of the pool,
\* and while the handler is at one of the two no call holds a permit or a
\* lease.  A scrape_page call starts only with the key accepted and the URL
\* valid.
C35_KeyAndUrlBeforePool ==
    [][/\ (handler_pc = "key" /\ handler_pc' /= "key" /\ KeyMissingOrWrong)
            => /\ RejectedWith("Unauthorized")'
               /\ url_str' = None
               /\ UNCHANGED ManagerVars
       /\ (handler_pc = "url" /\ handler_pc' /= "url"
             /\ ~validate_url(request[1].url).ok)
            => /\ RejectedWith("InvalidRequest")'
               /\ UNCHANGED ManagerVars
       /\ handler_pc \in {"key", "url"}
            => /\ \A r \in Req : ~hasPermit[r] /\ guard[r] = NoGuard
               /\ permits = max_concurrent_tabs
       /\ \A r \in Req :
            (pc[r] = "start" /\ pc'[r] /= "start")
              => /\ handler_pc = "scrape"
                 /\ ~KeyMissingOrWrong
                 /\ url_str = Some(request[1].url)
                 /\ validate_url(request[1].url).ok]_vars

\* The data of the success response the handler returned last.
SuccessData == returned[1].value.data[1]

\* C36: the analysis is attempted only after scrape_page returned Ok for
\* the request and only when the request carries an analysis_request, and
\* it never fails the request: the step that ends an analysis returns a
\* success response, and the response of a failed analysis has
\* analysis_error set and analysis_result absent.  A success response
\* without analysis_request carries neither, and no success response
\* carries both analysis_result and analysis_error.
C36_AnalysisNeverFailsRequest ==
    [][/\ handler_pc' = "analyze"
            => /\ request'[1].analysis_request /= None
               /\ served' > 0 /\ pc'[served'] = "done"
               /\ handler_pc = "analyze"
                    \/ (handler_pc = "scrape" /\ result = "Ok"
                          /\ served' = served + 1)
       /\ (handler_pc = "analyze" /\ handler_pc' /= "analyze")
            => /\ returned' /= None
               /\ returned'[1].fn = "scrape_handler"
               /\ returned'[1].value.success
               /\ returned'[1].value.error = None
               /\ SuccessData'.analysis_result = None
                    <=> SuccessData'.analysis_error /= None
               /\ app_error' = None
       /\ (returned' /= None /\ returned'[1].fn = "scrape_handler")
            => /\ ~(SuccessData'.analysis_result /= None
                      /\ SuccessData'.analysis_error /= None)
               /\ request'[1].analysis_request = None
                    => /\ SuccessData'.analysis_result = None
                       /\ SuccessData'.analysis_error = None]_vars

\* The handler has answered a request with an analysis_request whose
\* analysis failed: a success response with the scraped content, the
\* analysis_error text and no analysis_result.
C36_Witness ==
    /\ handler_pc = "idle"
    /\ request /= None
    /\ request[1].analysis_request /= None
    /\ returned /= None
    /\ returned[1].fn = "scrape_handler"
    /\ returned[1].value.success
    /\ SuccessData.analysis_result = None
    /\ SuccessData.analysis_error /= None
    /\ SuccessData.content = extract_result[1].content

====
